---- MODULE Spec2Model ----
(***************************************************************************)
(* Model of the step interpreter (parseStep), the element resolver         *)
(* (ElementResolver) and the execution orchestrator (ScenarioRunner) of    *)
(* pw-bdd-automation.                                                      *)
(*                                                                         *)
(* Text is modelled as a sequence of tokens: a word, a blank, a double     *)
(* quote, a '/'-prefixed path or a {key.path} placeholder is one token.    *)
(* String operations of the code (replace, trim, includes, toLowerCase,    *)
(* template literals) are token-level operators.                           *)
(***************************************************************************)
EXTENDS Integers, Sequences, FiniteSets, TLC

----------------------------------------------------------------------------
(* Text *)

Q == "\""
SP == " "

\* JavaScript undefined / null in a slot that otherwise holds text
Undefined == <<"<undefined>">>
Null == <<"<null>">>

\* `${x}` of a template literal: undefined prints as the word undefined
Show(s) == IF s = Undefined THEN <<"undefined">> ELSE s

\* a truthy string for `a || b`
Truthy(s) == s # Undefined /\ s # Null /\ s # <<>>

\* String.prototype.includes
Includes(s, p) ==
  \E i \in 0..(Len(s) - Len(p)) : SubSeq(s, i + 1, i + Len(p)) = p

\* String.prototype.startsWith
StartsWith(s, p) == Len(s) >= Len(p) /\ SubSeq(s, 1, Len(p)) = p

\* String.prototype.toLowerCase, token by token
LowerTok(t) ==
  CASE t = "Fill" -> "fill"
    [] t = "Click" -> "click"
    [] t = "Login" -> "login"
    [] t = "Input" -> "input"
    [] t = "Unknown" -> "unknown"
    [] t = "Inventory" -> "inventory"
    [] t = "/Inventory" -> "/inventory"
    [] OTHER -> t

ToLowerCase(s) == [i \in 1..Len(s) |-> LowerTok(s[i])]

\* .replace(/"/g, "")
StripQuotes(s) == SelectSeq(s, LAMBDA t : t # Q)

RECURSIVE TrimLeft(_)
TrimLeft(s) == IF s # <<>> /\ Head(s) = SP THEN TrimLeft(Tail(s)) ELSE s

RECURSIVE TrimRight(_)
TrimRight(s) ==
  IF s # <<>> /\ s[Len(s)] = SP THEN TrimRight(SubSeq(s, 1, Len(s) - 1)) ELSE s

\* String.prototype.trim
Trim(s) == TrimRight(TrimLeft(s))

\* .replace(/\s(noun1|noun2|...)$/i, "")
StripTrailingNoun(s, nouns) ==
  IF Len(s) >= 2 /\ s[Len(s) - 1] = SP /\ LowerTok(s[Len(s)]) \in nouns
  THEN SubSeq(s, 1, Len(s) - 2)
  ELSE s

\* .replace(/^the\s/i, "")
StripLeadingThe(s) ==
  IF Len(s) >= 2 /\ LowerTok(s[1]) = "the" /\ s[2] = SP THEN SubSeq(s, 3, Len(s)) ELSE s

\* tokens that are a '/'-prefixed path
PathTokens == {"/", "/inventory", "/Inventory", "/cart"}

\* characters outside the class ["\w\d\-\/] of the path pattern
Separators == {SP, ",", ":", "."}

----------------------------------------------------------------------------
(* Results of calls that may throw *)

Err(name, message) == [name |-> name, message |-> message]
NoError == Err("none", <<>>)
Ok(v) == [ok |-> TRUE, val |-> v, err |-> NoError]
Throw(e) == [ok |-> FALSE, val |-> <<>>, err |-> e]

----------------------------------------------------------------------------
(* Test data (src/testdata/<env>.json) and placeholder resolution *)

\* {key.path} tokens the texts of the model use
PlaceholderTokens == {"{user.name}", "{user.missing}"}

PlaceholderKey(t) ==
  CASE t = "{user.name}" -> "user.name"
    [] t = "{user.missing}" -> "user.missing"
    [] OTHER -> t

\* testDataManager.getData(key): the value, or undefined when the key is absent
GetData(key) == IF key = "user.name" THEN <<"standard_user">> ELSE Undefined

RECURSIVE ReplaceAll(_)
ReplaceAll(text) ==
  IF text = <<>> THEN <<>>
  ELSE IF Head(text) \in PlaceholderTokens
       THEN GetData(PlaceholderKey(Head(text))) \o ReplaceAll(Tail(text))
       ELSE <<Head(text)>> \o ReplaceAll(Tail(text))

\* the placeholders of text whose key has no data, in text order
MissingKeys(text) ==
  SelectSeq(text, LAMBDA t : t \in PlaceholderTokens /\ GetData(PlaceholderKey(t)) = Undefined)

resolvePlaceholders(text) ==
  IF text = Undefined
  THEN Throw(Err("TypeError",
         <<"Cannot read properties of undefined (reading 'replace')">>))
  ELSE IF MissingKeys(text) # <<>>
  THEN LET key == PlaceholderKey(Head(MissingKeys(text)))
       IN Throw(Err("Error",
            <<"Error resolving placeholder", SP, key, ":", SP,
              "Error: No data found for key:", SP, key>>))
  ELSE Ok(ReplaceAll(text))

----------------------------------------------------------------------------
(* Step interpreter: src/src/utils/step-parser.ts *)

EntityKeys == {"urlPath", "value", "element", "page", "message"}

Action(action, locator, value, elementType) ==
  [action |-> action, locator |-> locator, value |-> value, elementType |-> elementType]

\* a slot built from resolvePlaceholders: the throw of the call is the throw of the mapper
WithValue(r, action, locator, elementType) ==
  IF r.ok THEN Ok(Action(action, locator, r.val, elementType)) ELSE Throw(r.err)

IntentNames ==
  {"navigate", "fill", "click", "select", "check", "uncheck", "radio",
   "assertText", "assertUrl", "assertVisible"}

IntentMap(intent, e, text) ==
  CASE intent = "navigate" ->
         Ok(Action("navigate", Undefined,
                   IF Truthy(e["urlPath"]) THEN e["urlPath"] ELSE e["page"], "none"))
    [] intent = "fill" ->
         WithValue(resolvePlaceholders(e["value"]), "fill", e["element"], "input")
    [] intent = "click" ->
         Ok(Action("click", e["element"], Undefined,
                   IF Includes(ToLowerCase(text), <<"link">>) THEN "link" ELSE "button"))
    [] intent = "select" ->
         WithValue(resolvePlaceholders(e["value"]), "select", e["element"], "dropdown")
    [] intent = "check" ->
         WithValue(resolvePlaceholders(e["value"]), "check", e["element"], "checkbox")
    [] intent = "uncheck" ->
         WithValue(resolvePlaceholders(e["value"]), "uncheck", e["element"], "checkbox")
    [] intent = "radio" ->
         WithValue(resolvePlaceholders(e["value"]), "click", e["element"], "radio")
    [] intent = "assertText" ->
         WithValue(resolvePlaceholders(
                     IF Truthy(e["message"]) THEN e["message"] ELSE e["value"]),
                   "assertText", Undefined, "none")
    [] intent = "assertUrl" ->
         WithValue(resolvePlaceholders(e["page"]), "assertUrl", Undefined, "none")
    [] intent = "assertVisible" ->
         WithValue(resolvePlaceholders(e["element"]), "assertVisible", Undefined, "none")
    [] OTHER ->
         \* IntentMap[intent] is undefined: calling it is a TypeError
         Throw(Err("TypeError", <<"mapper is not a function">>))

\* stepText.match(/\/["\w\d\-\/]*|\/$/): the first path and what the class absorbs after it
FirstPath(s) ==
  IF \E i \in 1..Len(s) : s[i] \in PathTokens
  THEN CHOOSE i \in 1..Len(s) :
         s[i] \in PathTokens /\ \A j \in 1..(i - 1) : s[j] \notin PathTokens
  ELSE 0

RECURSIVE PathEnd(_, _)
PathEnd(s, i) ==
  IF i < Len(s) /\ s[i + 1] \notin Separators /\ s[i + 1] \notin PlaceholderTokens
  THEN PathEnd(s, i + 1)
  ELSE i

UrlMatch(s) ==
  LET i == FirstPath(s) IN IF i = 0 THEN Null ELSE SubSeq(s, i, PathEnd(s, i))

\* Array.prototype.sort((a, b) => a.start - b.start), stable
RECURSIVE InsertByStart(_, _)
InsertByStart(e, sorted) ==
  IF sorted = <<>> THEN <<e>>
  ELSE IF e.start < Head(sorted).start THEN <<e>> \o sorted
       ELSE <<Head(sorted)>> \o InsertByStart(e, Tail(sorted))

RECURSIVE SortByStart(_)
SortByStart(ents) ==
  IF ents = <<>> THEN <<>>
  ELSE InsertByStart(ents[Len(ents)], SortByStart(SubSeq(ents, 1, Len(ents) - 1)))

ElementNouns == {"input", "button", "link", "checkbox", "radio", "page", "dropdown"}
GeneralNouns == ElementNouns \cup {"message"}

\* the body of the forEach of the general entity mapping
CleanEntity(e) ==
  LET v == Trim(StripTrailingNoun(Trim(StripQuotes(e.sourceText)), GeneralNouns))
  IN IF e.entity = "page" THEN StripLeadingThe(v) ELSE v

RECURSIVE MapEntities(_, _)
MapEntities(ents, acc) ==
  IF ents = <<>> THEN acc
  ELSE MapEntities(Tail(ents), [acc EXCEPT ![Head(ents).entity] = CleanEntity(Head(ents))])

NoIntent(response) == response.intent = "" \/ response.intent = "None"

\* the test of the fallback with its second phrasing left out
IsOnPhrasing(stepText) == Includes(ToLowerCase(stepText), <<"is", SP, "on">>)

\* stepText.toLowerCase().includes("is on") || ...includes("goes to")
NavigationPhrasing(stepText) ==
  \/ Includes(ToLowerCase(stepText), <<"is", SP, "on">>)
  \/ Includes(ToLowerCase(stepText), <<"goes", SP, "to">>)

\* the entities object: urlPath, the multi-entity assignment by position, and
\* the general entity mapping over the sorted response.entities
ExtractEntities(stepText, response) ==
  LET urlMatch == UrlMatch(stepText)
      sorted == SortByStart(response.entities)
      e0 == [k \in EntityKeys |-> Undefined]
      e1 == IF urlMatch # Null
            THEN [e0 EXCEPT !["urlPath"] = Trim(StripQuotes(urlMatch))]
            ELSE e0
      e2 == IF Len(sorted) >= 2
               /\ response.intent \notin {"action.navigate", "assert.text"}
            THEN [e1 EXCEPT
                    !["value"] = Trim(StripQuotes(sorted[1].sourceText)),
                    !["element"] =
                       Trim(StripTrailingNoun(StripQuotes(sorted[2].sourceText),
                                              ElementNouns))]
            ELSE e1
  IN MapEntities(sorted, e2)

parseStep(stepText, response) ==
  LET urlMatch == UrlMatch(stepText)
  IN IF NoIntent(response) /\ NavigationPhrasing(stepText)
     THEN Ok(Action("navigate", Undefined,
                    IF urlMatch # Null THEN StripQuotes(urlMatch) ELSE <<"unknown">>,
                    "none"))
     ELSE IF NoIntent(response)
     THEN Throw(Err("Error", <<"Step not recognized:", SP>> \o stepText))
     ELSE IntentMap(response.intent, ExtractEntities(stepText, response), stepText)

----------------------------------------------------------------------------
(* The page: what the browser reports about the DOM *)

AttrNames ==
  {"id", "name", "type", "placeholder", "aria-label", "data-testid",
   "data-test-id", "href", "alt", "title", "class", "value", "role", "onclick"}

NoAttrs == [a \in AttrNames |-> <<>>]

\* an element: its tag, the tag of its parent, its text content, the role and
\* accessible name the browser computes, its label, its attributes, whether it
\* is visible and the frame it lives in
Element(tag, inside, text, role, accName, label, attrs, visible, frame) ==
  [tag |-> tag, inside |-> inside, text |-> text, role |-> role, accName |-> accName,
   label |-> label, attrs |-> attrs, visible |-> visible, frame |-> frame]

\* conditions of a CSS attribute selector
AttrEq(a, v) == [attr |-> a, op |-> "eq", val |-> v]
AttrHas(a, v) == [attr |-> a, op |-> "has", val |-> v]

\* a selector string: form css (tag, attribute conditions, :has-text), form
\* id (#name), form invalid (a string the selector engine rejects), form
\* placeholder (__ROLE_LOCATOR_i__) and form roleString (the text getByRole(...))
Sel(form, tag, inside, conds, text, visibleOnly) ==
  [form |-> form, tag |-> tag, inside |-> inside, conds |-> conds, text |-> text,
   visibleOnly |-> visibleOnly]

Css(tag, conds) == Sel("css", tag, "", conds, Undefined, FALSE)
CssIn(parent, conds) == Sel("css", "*", parent, conds, Undefined, FALSE)
HasText(tag, name) == Sel("css", tag, "", <<>>, name, FALSE)
VisibleText(name) == Sel("css", "*", "", <<>>, name, TRUE)
IdSel(name) == Sel("id", "*", "", <<AttrEq("id", name)>>, Undefined, FALSE)
ClassSel(cls) == Sel("class", "*", "", <<AttrHas("class", cls)>>, Undefined, FALSE)
InvalidSel(name) == Sel("invalid", "*", "", <<>>, name, FALSE)
\* the decimal text of a strategy index
IndexText(i) ==
  <<<<"0">>, <<"1">>, <<"2">>, <<"3">>, <<"4">>, <<"5">>, <<"6">>, <<"7">>, <<"8">>,
    <<"9">>, <<"10">>, <<"11">>, <<"12">>, <<"13">>>>[i + 1]

RolePlaceholder(i) == Sel("placeholder", "__ROLE_LOCATOR__", "", <<>>, IndexText(i), FALSE)
RoleString(role, name, exact) ==
  Sel("roleString", role, "", <<>>, name, exact)
NoSel == Sel("none", "", "", <<>>, Undefined, FALSE)

\* a Locator: page.locator(selector), page.getByRole, page.getByLabel, page.getByPlaceholder
Locator(by, sel, role, name, exact) ==
  [by |-> by, sel |-> sel, role |-> role, name |-> name, exact |-> exact]

PageLocator(sel) == Locator("css", sel, "", <<>>, FALSE)
GetByRole(role, name, exact) == Locator("role", NoSel, role, name, exact)
GetByLabel(name) == Locator("label", NoSel, "", name, FALSE)
GetByPlaceholder(name) == Locator("placeholder", NoSel, "", name, FALSE)

\* case-insensitive substring; the empty string is no match of [attr*=""]
HasI(s, p) == p # <<>> /\ Includes(ToLowerCase(s), ToLowerCase(p))

CondHolds(el, c) ==
  IF c.op = "eq" THEN el.attrs[c.attr] = c.val ELSE HasI(el.attrs[c.attr], c.val)

\* a selector the engine cannot parse: count() and isVisible() throw on it
SelectorThrows(sel) == sel.form \in {"invalid", "roleString"}

\* [attr]: the attribute is present
Present(el, a) == el.attrs[a] # <<>>

\* { name: undefined, exact: true } filters nothing; new RegExp(undefined, "i")
\* is the empty pattern, which every name matches
NameIs(s, name) == name = Undefined \/ s = name
NameLike(s, name) == name = Undefined \/ HasI(s, name)

SelMatches(el, sel) ==
  CASE sel.form = "css" ->
         /\ sel.tag \in {"*", el.tag}
         /\ sel.inside \in {"", el.inside}
         /\ \A i \in 1..Len(sel.conds) : CondHolds(el, sel.conds[i])
         /\ sel.text # Undefined => HasI(el.text, sel.text)
         /\ sel.visibleOnly => el.visible
    [] sel.form = "id" ->
         \* #a b c is a descendant chain, no element of these pages matches one
         /\ Len(sel.conds[1].val) = 1
         /\ el.attrs["id"] = sel.conds[1].val
    [] sel.form = "class" ->
         \E i \in 1..Len(el.attrs["class"]) : <<el.attrs["class"][i]>> = sel.conds[1].val
    [] OTHER -> FALSE

LocMatches(el, loc) ==
  /\ el.frame = "main"
  /\ CASE loc.by = "css" -> SelMatches(el, loc.sel)
       [] loc.by = "role" ->
            /\ el.role = loc.role
            /\ IF loc.exact THEN NameIs(el.accName, loc.name)
               ELSE NameLike(el.accName, loc.name)
       [] loc.by = "label" -> el.label # <<>> /\ NameLike(el.label, loc.name)
       [] loc.by = "placeholder" ->
            Present(el, "placeholder") /\ NameLike(el.attrs["placeholder"], loc.name)
       [] OTHER -> FALSE

\* the elements a locator designates, in document order
Matching(dom, loc) == SelectSeq(dom, LAMBDA el : LocMatches(el, loc))

\* locator.count()
Count(dom, loc) == Len(Matching(dom, loc))

\* count > 0 and the first of the designated elements is visible
FirstIsVisible(matching) == Len(matching) > 0 /\ matching[1].visible

\* (await locator.count()) > 0 && (await locator.first().isVisible())
FoundVisible(dom, loc) == FirstIsVisible(Matching(dom, loc))

----------------------------------------------------------------------------
(* Element resolver: src/src/utils/element-resolver.ts *)

\* a strategy: the locator it probes and the selector string it answers with.
\* A string strategy probes page.locator(string) and answers the string.
Str(sel) == [ret |-> sel, loc |-> PageLocator(sel)]
\* a function strategy of executeStrategies: the call returns a Locator and the
\* answer is the string __ROLE_LOCATOR_i__, i the index in the list
Fn(i, loc) == [ret |-> RolePlaceholder(i), loc |-> loc]
\* a function strategy of tryQuickStrategies: answers the text getByRole(...)
\* and the locator probed is rebuilt from that text
QuickFn(role, name, exact) ==
  [ret |-> RoleString(role, name, exact), loc |-> GetByRole(role, name, exact)]

\* one round of the strategy loop: a selector the engine rejects throws, the
\* throw is caught and the loop goes on
StrategyHits(dom, st) ==
  /\ ~(st.loc.by = "css" /\ SelectorThrows(st.loc.sel))
  /\ FoundVisible(dom, st.loc)

RECURSIVE FirstHit(_, _, _)
FirstHit(dom, strategies, i) ==
  IF i > Len(strategies) THEN NoSel
  ELSE IF StrategyHits(dom, strategies[i]) THEN strategies[i].ret
       ELSE FirstHit(dom, strategies, i + 1)

executeStrategies(dom, strategies) == FirstHit(dom, strategies, 1)

tryLinkStrategies(dom, name) ==
  executeStrategies(dom, <<
    Str(HasText("a", name)),
    Str(Css("a", <<AttrHas("id", name)>>)),
    Str(Css("a", <<AttrHas("href", name)>>)),
    Str(Css("a", <<AttrHas("alt", name)>>)),
    Str(Css("a", <<AttrHas("title", name)>>)),
    Fn(5, GetByRole("link", name, TRUE)),
    Fn(6, GetByRole("link", name, FALSE)) >>)

tryButtonStrategies(dom, name) ==
  executeStrategies(dom, <<
    Str(Css("button", <<AttrHas("data-test-id", name)>>)),
    Str(CssIn("button", <<AttrHas("data-testid", name)>>)),
    Str(Css("*", <<AttrHas("data-test-id", name)>>)),
    Str(Css("*", <<AttrHas("data-testid", name)>>)),
    Str(IdSel(name)),
    Str(Css("button", <<AttrHas("id", name)>>)),
    Str(Css("button", <<AttrEq("name", name)>>)),
    Str(HasText("button", name)),
    Str(Css("input", <<AttrEq("type", <<"submit">>), AttrHas("value", name)>>)),
    Str(Css("button", <<AttrHas("aria-label", name)>>)),
    Str(Css("button", <<AttrHas("title", name)>>)),
    Str(Css("button", <<AttrHas("class", name)>>)),
    Str(HasText("button", name)),
    Str(Css("input", <<AttrEq("type", <<"button">>), AttrHas("value", name)>>)) >>)

tryInputStrategies(dom, name) ==
  executeStrategies(dom, <<
    Str(Css("input", <<AttrEq("name", name)>>)),
    Str(InvalidSel(name)),
    Str(Css("input", <<AttrHas("placeholder", name)>>)),
    Str(Css("input", <<AttrHas("aria-label", name)>>)),
    Str(Css("input", <<AttrHas("data-testid", name)>>)),
    Str(Css("input", <<AttrEq("type", name)>>)),
    Fn(6, GetByLabel(name)),
    Fn(7, GetByRole("textbox", name, FALSE)),
    Fn(8, GetByPlaceholder(name)) >>)

tryDropdownStrategies(dom, name) ==
  executeStrategies(dom, <<
    Str(Css("select", <<AttrEq("name", name)>>)),
    Str(IdSel(name)),
    Fn(2, GetByRole("combobox", name, FALSE)),
    Str(Css("select", <<AttrHas("aria-label", name)>>)) >>)

tryCheckboxRadioStrategies(dom, name, type) ==
  executeStrategies(dom, <<
    Str(Css("input", <<AttrEq("type", <<type>>), AttrEq("name", name)>>)),
    Str(IdSel(name)),
    Fn(2, GetByRole(type, name, FALSE)),
    Str(Css("input", <<AttrEq("type", <<type>>), AttrHas("aria-label", name)>>)) >>)

tryTypeSpecificStrategies(dom, name, elementType) ==
  CASE elementType = "link" -> tryLinkStrategies(dom, name)
    [] elementType = "button" -> tryButtonStrategies(dom, name)
    [] elementType = "input" -> tryInputStrategies(dom, name)
    [] elementType = "dropdown" -> tryDropdownStrategies(dom, name)
    [] elementType \in {"checkbox", "radio"} ->
         tryCheckboxRadioStrategies(dom, name, elementType)
    [] OTHER -> NoSel

tryQuickStrategies(dom, name) ==
  FirstHit(dom, <<
    Str(Css("*", <<AttrEq("data-testid", name)>>)),
    Str(Css("*", <<AttrHas("data-testid", name)>>)),
    Str(IdSel(name)),
    Str(Css("*", <<AttrEq("name", name)>>)),
    QuickFn("link", name, TRUE),
    QuickFn("link", name, FALSE),
    QuickFn("button", name, TRUE),
    QuickFn("button", name, FALSE),
    Str(HasText("button", name)),
    Str(HasText("a", name)),
    Str(Css("input", <<AttrHas("placeholder", name)>>)),
    Str(Css("input", <<AttrHas("aria-label", name)>>)),
    Str(VisibleText(name)) >>, 1)

----------------------------------------------------------------------------
(* Structural scan: src/src/utils/dom-analyzer.ts *)

\* the twelve queries of page.evaluate, run on the main document
InteractiveQueries ==
  << [tag |-> "button", attr |-> "", val |-> <<>>],
     [tag |-> "input", attr |-> "", val |-> <<>>],
     [tag |-> "select", attr |-> "", val |-> <<>>],
     [tag |-> "textarea", attr |-> "", val |-> <<>>],
     [tag |-> "a", attr |-> "href", val |-> <<>>],
     [tag |-> "*", attr |-> "role", val |-> <<"button">>],
     [tag |-> "*", attr |-> "role", val |-> <<"link">>],
     [tag |-> "*", attr |-> "role", val |-> <<"textbox">>],
     [tag |-> "*", attr |-> "data-testid", val |-> <<>>],
     [tag |-> "*", attr |-> "onclick", val |-> <<>>],
     [tag |-> "*", attr |-> "class", val |-> <<"btn">>],
     [tag |-> "*", attr |-> "class", val |-> <<"button">>] >>

QueryMatches(el, q) ==
  /\ el.frame = "main"
  /\ q.tag \in {"*", el.tag}
  /\ q.attr # "" => Present(el, q.attr)
  /\ q.val # <<>> =>
       IF q.attr = "class"
       THEN \E i \in 1..Len(el.attrs["class"]) : <<el.attrs["class"][i]>> = q.val
       ELSE el.attrs[q.attr] = q.val

RECURSIVE CollectInteractive(_, _)
CollectInteractive(dom, i) ==
  IF i > Len(InteractiveQueries) THEN <<>>
  ELSE SelectSeq(dom, LAMBDA el : QueryMatches(el, InteractiveQueries[i]))
       \o CollectInteractive(dom, i + 1)

elementMatches(el, description) ==
  LET desc == ToLowerCase(description)
      text == ToLowerCase(el.text)
  IN \/ Includes(text, desc)
     \/ Includes(desc, text)
     \/ Includes(ToLowerCase(el.attrs["id"]), desc)
     \/ Includes(ToLowerCase(el.attrs["class"]), desc)
     \/ Includes(ToLowerCase(el.attrs["name"]), desc)
     \/ Includes(ToLowerCase(el.attrs["placeholder"]), desc)
     \/ Includes(ToLowerCase(el.attrs["aria-label"]), desc)

\* class names of more than two characters that /^\w{6,}$/ does not match
StableClasses == {"btn", "btn-primary", "nav", "link", "cta"}

\* text.length < 50: texts of the model are short unless they hold this token
LongTextToken == "<fifty characters or more>"

\* the test-id selector is pushed before the id selector
TestIdThenId(id, testid) ==
  (IF testid # <<>> THEN <<Css("*", <<AttrEq("data-testid", testid)>>)>> ELSE <<>>)
    \o (IF id # <<>> THEN <<IdSel(id)>> ELSE <<>>)

\* "ID selector (highest priority)", then "Data-testid selector"
IdThenTestId(id, testid) ==
  (IF id # <<>> THEN <<IdSel(id)>> ELSE <<>>)
    \o (IF testid # <<>> THEN <<Css("*", <<AttrEq("data-testid", testid)>>)>> ELSE <<>>)

generateSelectors(el) ==
  LET id == el.attrs["id"]
      testid == el.attrs["data-testid"]
      name == el.attrs["name"]
      type == el.attrs["type"]
      placeholder == el.attrs["placeholder"]
      aria == el.attrs["aria-label"]
      cls == el.attrs["class"]
      classes == SelectSeq(cls, LAMBDA c : c \in StableClasses)
  IN IdThenTestId(id, testid)
     \o (IF name # <<>>
         THEN <<Css("*", <<AttrEq("name", name)>>), Css(el.tag, <<AttrEq("name", name)>>)>>
         ELSE <<>>)
     \o (IF type # <<>> /\ name # <<>>
         THEN <<Css("input", <<AttrEq("type", type), AttrEq("name", name)>>)>>
         ELSE <<>>)
     \o (IF placeholder # <<>>
         THEN <<Css("*", <<AttrEq("placeholder", placeholder)>>)>> ELSE <<>>)
     \o (IF aria # <<>> THEN <<Css("*", <<AttrEq("aria-label", aria)>>)>> ELSE <<>>)
     \o (IF el.text # <<>> /\ ~Includes(el.text, <<LongTextToken>>) /\ el.tag \in {"button", "a"}
         THEN <<HasText(el.tag, el.text)>> ELSE <<>>)
     \o (IF cls # <<>> /\ ~Includes(cls, <<"css-">>) /\ ~Includes(cls, <<"emotion-">>)
            /\ classes # <<>>
         THEN <<ClassSel(<<classes[1]>>)>> ELSE <<>>)

\* the callback of interactiveElements.filter is a block that calls
\* elementMatches and returns nothing: its value is undefined for every element
FilterCallback(el, description) ==
  LET matched == elementMatches(el, description) IN FALSE

RECURSIVE Flatten(_)
Flatten(lists) == IF lists = <<>> THEN <<>> ELSE Head(lists) \o Flatten(Tail(lists))

\* [...new Set(list)]
RECURSIVE Dedupe(_)
Dedupe(list) ==
  IF list = <<>> THEN <<>>
  ELSE LET rest == Dedupe(SubSeq(list, 1, Len(list) - 1))
           last == list[Len(list)]
       IN IF \E i \in 1..Len(rest) : rest[i] = last THEN rest ELSE Append(rest, last)

analyzeElement(dom, description) ==
  LET interactive == CollectInteractive(dom, 1)
      matching == SelectSeq(interactive, LAMBDA el : FilterCallback(el, description))
  IN Dedupe(Flatten([i \in 1..Len(matching) |-> generateSelectors(matching[i])]))

\* one entry of results: count 0 and invisible when the probe throws
Probed(sel, matching) ==
  IF SelectorThrows(sel)
  THEN [selector |-> sel, count |-> 0, isVisible |-> FALSE]
  ELSE [selector |-> sel, count |-> Len(matching), isVisible |-> FirstIsVisible(matching)]

ProbeResult(dom, sel) == Probed(sel, Matching(dom, PageLocator(sel)))

\* a comparator that orders by visibility alone
SortsAfterByVisibility(a, b) == a.isVisible # b.isVisible /\ b.isVisible

\* the comparator of findBestSelector: a sorts after b
SortsAfter(a, b) ==
  IF a.isVisible # b.isVisible THEN b.isVisible ELSE a.count > b.count

RECURSIVE InsertResult(_, _)
InsertResult(r, sorted) ==
  IF sorted = <<>> THEN <<r>>
  ELSE IF SortsAfter(Head(sorted), r) THEN <<r>> \o sorted
       ELSE <<Head(sorted)>> \o InsertResult(r, Tail(sorted))

RECURSIVE SortResults(_)
SortResults(rs) ==
  IF rs = <<>> THEN <<>>
  ELSE InsertResult(rs[Len(rs)], SortResults(SubSeq(rs, 1, Len(rs) - 1)))

findBestSelector(dom, selectors) ==
  LET results == [i \in 1..Len(selectors) |-> ProbeResult(dom, selectors[i])]
      existing == SortResults(SelectSeq(results, LAMBDA r : r.count > 0))
  IN IF existing = <<>> THEN NoSel ELSE existing[1].selector

----------------------------------------------------------------------------
(* ElementResolver.resolve *)

\* `${url}_${elementName}_${scenarioId} || "default"}_${Date.now()}`: no caller
\* passes scenarioId, so that part of the key is the text undefined
CacheKey(url, elementName, now) == <<url, elementName, "undefined", now>>

EmptyCache == << >>

CacheHas(cache, key) == \E i \in 1..Len(cache) : cache[i].key = key

CacheGet(cache, key) ==
  cache[CHOOSE i \in 1..Len(cache) : cache[i].key = key].sel

\* Map.prototype.set: the entry of the key is replaced, or a new one is added
CacheSet(cache, key, sel) ==
  IF CacheHas(cache, key)
  THEN [i \in 1..Len(cache) |->
          IF cache[i].key = key THEN [key |-> key, sel |-> sel] ELSE cache[i]]
  ELSE Append(cache, [key |-> key, sel |-> sel])

\* the outcome of one resolve call: the Locator it returns or the error it
\* throws, the tier that answered, whether analyzeElement was invoked and the
\* cache after the call
Resolved(locator, tier, scanned, cache) ==
  [ok |-> TRUE, locator |-> locator, tier |-> tier, scanned |-> scanned,
   cache |-> cache, err |-> NoError]

ResolveThrows(err, tier, scanned, cache) ==
  [ok |-> FALSE, locator |-> PageLocator(NoSel), tier |-> tier, scanned |-> scanned,
   cache |-> cache, err |-> err]

SelectorEngineError ==
  Err("Error", <<"Unexpected token while parsing selector">>)

\* the number of a template literal, as text
CountText(n) == IF n < 14 THEN IndexText(n) ELSE <<"many">>

\* "Check cache first": a cached selector that still counts an element answers
CacheTier(dom, cache, cacheKey, otherwise) ==
  IF ~CacheHas(cache, cacheKey) THEN otherwise
  ELSE IF SelectorThrows(CacheGet(cache, cacheKey))
  THEN ResolveThrows(SelectorEngineError, "cache", FALSE, cache)
  ELSE IF Count(dom, PageLocator(CacheGet(cache, cacheKey))) > 0
  THEN Resolved(PageLocator(CacheGet(cache, cacheKey)), "cache", FALSE, cache)
  ELSE otherwise

\* a selector found by the type-specific or the quick strategies is cached
\* and page.locator(selector) is returned
SelectorTier(tier, selector, cache, cacheKey, otherwise) ==
  IF selector # NoSel
  THEN Resolved(PageLocator(selector), tier, FALSE, CacheSet(cache, cacheKey, selector))
  ELSE otherwise

\* "Try role-based strategies directly (without caching)"
RoleTier(dom, elementType, roleLocator, cache, otherwise) ==
  IF elementType = "button" /\ FoundVisible(dom, roleLocator)
  THEN Resolved(roleLocator, "role", FALSE, cache)
  ELSE otherwise

NotLocated(elementName, suggestions) ==
  Err("Error",
      <<"Could not locate element,", SP, Q>> \o Show(elementName)
        \o <<Q, SP, "after trying", SP>> \o CountText(Len(suggestions))
        \o <<SP, "strategies">>)

\* "Fallback to DOM analysis"
BestTier(bestSelector, elementName, suggestions, cache, cacheKey) ==
  IF bestSelector # NoSel
  THEN Resolved(PageLocator(bestSelector), "dom", TRUE,
                CacheSet(cache, cacheKey, bestSelector))
  ELSE ResolveThrows(NotLocated(elementName, suggestions), "none", TRUE, cache)

ScanTier(dom, elementName, suggestions, cache, cacheKey) ==
  BestTier(IF Len(suggestions) > 0 THEN findBestSelector(dom, suggestions) ELSE NoSel,
           elementName, suggestions, cache, cacheKey)

\* a resolver that runs the structural scan before any other tier
CascadeScanFirst(dom, cache, cacheKey, elementName, elementType) ==
  ScanTier(dom, elementName, analyzeElement(dom, elementName), cache, cacheKey)

Cascade(dom, cache, cacheKey, elementName, elementType) ==
  CacheTier(dom, cache, cacheKey,
    SelectorTier("type", tryTypeSpecificStrategies(dom, elementName, elementType),
                 cache, cacheKey,
      RoleTier(dom, elementType, GetByRole("button", elementName, TRUE), cache,
        RoleTier(dom, elementType, GetByRole("button", elementName, FALSE), cache,
          SelectorTier("quick", tryQuickStrategies(dom, elementName), cache, cacheKey,
            ScanTier(dom, elementName, analyzeElement(dom, elementName),
                     cache, cacheKey))))))

resolve(dom, u, cache, now, elementName, elementType) ==
  Cascade(dom, cache, CacheKey(u, elementName, now), elementName, elementType)

----------------------------------------------------------------------------
(* The site under test: what the browser shows at each URL *)

BaseUrl == <<"https://shop.test">>

\* the URL page.url() reports after goto(`${baseUrl}${value}`)
UrlOf(value) ==
  CASE value = <<"/">> -> BaseUrl \o <<"/">>
    [] value = <<"/inventory">> -> BaseUrl \o <<"/", "inventory">>
    [] value = <<"/cart">> -> BaseUrl \o <<"/", "cart">>
    [] OTHER -> BaseUrl \o value

LoginUrl == UrlOf(<<"/">>)
InventoryUrl == UrlOf(<<"/inventory">>)

LoginPage ==
  << Element("input", "form", <<>>, "textbox", <<"Username">>, <<>>,
             [NoAttrs EXCEPT !["id"] = <<"user-name">>, !["name"] = <<"user-name">>,
                             !["type"] = <<"text">>, !["placeholder"] = <<"Username">>],
             TRUE, "main"),
     Element("input", "form", <<>>, "textbox", <<"Password">>, <<>>,
             [NoAttrs EXCEPT !["id"] = <<"password">>, !["name"] = <<"password">>,
                             !["type"] = <<"password">>, !["placeholder"] = <<"Password">>],
             TRUE, "main"),
     Element("input", "form", <<>>, "button", <<"Login">>, <<>>,
             [NoAttrs EXCEPT !["id"] = <<"login-button">>, !["name"] = <<"login-button">>,
                             !["type"] = <<"submit">>, !["value"] = <<"Login">>,
                             !["class"] = <<"submit-button", SP, "btn">>],
             TRUE, "main") >>

InventoryPage ==
  << Element("a", "div", <<"inventory">>, "link", <<"inventory">>, <<>>,
             [NoAttrs EXCEPT !["href"] = <<"/", "inventory">>, !["id"] = <<"inventory_link">>],
             TRUE, "main"),
     Element("select", "div", <<"Large", SP, "Small">>, "combobox", <<"size">>, <<>>,
             [NoAttrs EXCEPT !["name"] = <<"size">>], TRUE, "main"),
     Element("button", "div", <<"Add", SP, "to", SP, "cart">>, "button",
             <<"Add", SP, "to", SP, "cart">>, <<>>,
             [NoAttrs EXCEPT !["id"] = <<"add-to-cart">>, !["class"] = <<"btn">>],
             TRUE, "main"),
     Element("div", "nav", <<"Menu">>, "button", <<"Menu">>, <<>>,
             [NoAttrs EXCEPT !["role"] = <<"button">>], TRUE, "main"),
     Element("input", "div", <<>>, "textbox", <<"Coupon">>, <<"Coupon">>,
             [NoAttrs EXCEPT !["id"] = <<"c1">>, !["type"] = <<"text">>], TRUE, "main") >>

PageDom(u) ==
  CASE u = LoginUrl -> LoginPage
    [] u = InventoryUrl -> InventoryPage
    [] OTHER -> << >>

----------------------------------------------------------------------------
(* Steps and what the intent classifier answers for them *)

Ent(role, start, sourceText) == [entity |-> role, start |-> start, sourceText |-> sourceText]
Resp(intent, entities) == [intent |-> intent, entities |-> entities]
Case(keyword, text, response) == [keyword |-> keyword, text |-> text, response |-> response]

Quoted(s) == <<Q>> \o s \o <<Q>>

Cases ==
  [id \in {"navPage", "navFallback", "fill", "fillData", "fillMissing", "click",
           "clickUnknownAction", "select", "check", "uncheck", "checkMissing",
           "checkNoSlots", "assertVisible", "seeLocked", "seeUnknownAction",
           "assertUrl", "unrecognized", "greet"} |->
    CASE id = "navPage" ->
           Case("Given",
                <<"user", SP, "is", SP, "on", SP, "the", SP, "login", SP, "page", SP, Q, "/", Q>>,
                Resp("navigate",
                     <<Ent("page", 11, <<"the", SP, "login", SP, "page", SP, Q, "/", Q>>)>>))
      [] id = "navFallback" ->
           Case("Given",
                <<"user", SP, "is", SP, "on", SP, "the", SP, "login", SP, "page", SP, Q, "/", Q>>,
                Resp("None", <<>>))
      [] id = "fill" ->
           Case("When",
                <<"user", SP, "fill", SP>> \o Quoted(<<"secret_sauce">>) \o <<SP, "in", SP>>
                  \o Quoted(<<"password">>) \o <<SP, "input">>,
                Resp("fill",
                     <<Ent("value", 10, Quoted(<<"secret_sauce">>)),
                       Ent("element", 28, Quoted(<<"password">>) \o <<SP, "input">>)>>))
      [] id = "fillData" ->
           Case("When",
                <<"user", SP, "fill", SP>> \o Quoted(<<"{user.name}">>) \o <<SP, "in", SP>>
                  \o Quoted(<<"user-name">>) \o <<SP, "input">>,
                Resp("fill",
                     <<Ent("value", 10, Quoted(<<"{user.name}">>)),
                       Ent("element", 27, Quoted(<<"user-name">>) \o <<SP, "input">>)>>))
      [] id = "fillMissing" ->
           Case("When",
                <<"user", SP, "fill", SP>> \o Quoted(<<"{user.missing}">>) \o <<SP, "in", SP>>
                  \o Quoted(<<"user-name">>) \o <<SP, "input">>,
                Resp("fill",
                     <<Ent("value", 10, Quoted(<<"{user.missing}">>)),
                       Ent("element", 30, Quoted(<<"user-name">>) \o <<SP, "input">>)>>))
      [] id = "click" ->
           Case("And",
                <<"user", SP, "click", SP>> \o Quoted(<<"Login">>) \o <<SP, "button">>,
                Resp("click", <<Ent("element", 11, Quoted(<<"Login">>) \o <<SP, "button">>)>>))
      [] id = "clickUnknownAction" ->
           Case("And",
                <<"user", SP, "click", SP>> \o Quoted(<<"Unknown", SP, "action">>)
                  \o <<SP, "button">>,
                Resp("click",
                     <<Ent("element", 11,
                           Quoted(<<"Unknown", SP, "action">>) \o <<SP, "button">>)>>))
      [] id = "select" ->
           Case("When",
                <<"user", SP, "select", SP>> \o Quoted(<<"Large">>) \o <<SP, "from", SP>>
                  \o Quoted(<<"size">>) \o <<SP, "dropdown">>,
                Resp("select",
                     <<Ent("value", 12, Quoted(<<"Large">>)),
                       Ent("element", 25, Quoted(<<"size">>) \o <<SP, "dropdown">>)>>))
      [] id = "check" ->
           Case("When",
                <<"user", SP, "check", SP>> \o Quoted(<<"terms">>) \o <<SP, "from", SP>>
                  \o Quoted(<<"agreements">>),
                Resp("check",
                     <<Ent("value", 11, Quoted(<<"terms">>)),
                       Ent("element", 24, Quoted(<<"agreements">>))>>))
      [] id = "uncheck" ->
           Case("When",
                <<"user", SP, "uncheck", SP>> \o Quoted(<<"terms">>) \o <<SP, "from", SP>>
                  \o Quoted(<<"agreements">>),
                Resp("uncheck",
                     <<Ent("value", 13, Quoted(<<"terms">>)),
                       Ent("element", 26, Quoted(<<"agreements">>))>>))
      [] id = "checkMissing" ->
           Case("When",
                <<"user", SP, "check", SP>> \o Quoted(<<"{user.missing}">>)
                  \o <<SP, "from", SP>> \o Quoted(<<"agreements">>),
                Resp("check",
                     <<Ent("value", 11, Quoted(<<"{user.missing}">>)),
                       Ent("element", 33, Quoted(<<"agreements">>))>>))
      [] id = "checkNoSlots" ->
           Case("When", <<"user", SP, "check", SP, "terms">>, Resp("check", <<>>))
      [] id = "assertVisible" ->
           Case("Then",
                Quoted(<<"Login">>) \o <<SP, "should", SP, "be", SP, "visible">>,
                Resp("assertVisible", <<Ent("element", 5, Quoted(<<"Login">>))>>))
      [] id = "seeLocked" ->
           Case("Then",
                <<"user", SP, "should", SP, "see", SP, "a", SP>>
                  \o Quoted(<<"locked", SP, "out">>) \o <<SP, "message">>,
                Resp("assertText", <<Ent("message", 18, Quoted(<<"locked", SP, "out">>))>>))
      [] id = "seeUnknownAction" ->
           Case("Then",
                <<"user", SP, "should", SP, "see", SP, "a", SP>>
                  \o Quoted(<<"Unknown", SP, "action">>) \o <<SP, "message">>,
                Resp("assertText",
                     <<Ent("message", 18, Quoted(<<"Unknown", SP, "action">>))>>))
      [] id = "assertUrl" ->
           Case("Then",
                <<"user", SP, "should", SP, "be", SP, "redirected", SP, "to", SP, "the", SP,
                  "inventory", SP, "page">>,
                Resp("assertUrl",
                     <<Ent("page", 29, <<"the", SP, "inventory", SP, "page">>)>>))
      [] id = "unrecognized" ->
           Case("When", <<"Frobnicate", SP, "the", SP, "whatsit">>, Resp("None", <<>>))
      [] OTHER ->
           Case("When", <<"user", SP, "greets", SP, "the", SP, "world">>, Resp("greet", <<>>))]

CaseIds == DOMAIN Cases

----------------------------------------------------------------------------
(* Execution orchestrator: src/src/runner/scenario-runner.ts *)

\* what the browser does during one attempt: whether the browser operation of
\* the step completes within its timeout, and whether a click redirects
Browser(completes, redirects) == [completes |-> completes, redirects |-> redirects]
Browsers == {Browser(c, r) : c \in BOOLEAN, r \in BOOLEAN}

TimeoutError == Err("TimeoutError", <<"Timeout exceeded">>)
StrictModeError == Err("Error", <<"strict mode violation">>)
NameNotResolved == Err("Error", <<"net::ERR_NAME_NOT_RESOLVED">>)
\* page.goto is overtaken by a redirect of the page it was leaving
NavigationInterrupted == Err("Error", <<"Navigation interrupted by another navigation">>)

\* the outcome of interpretStep: returned or thrown, and the page and the
\* resolver cache it leaves behind
Outcome(ok, err, u, cache) == [ok |-> ok, err |-> err, url |-> u, cache |-> cache]

\* locator.fill / click / selectOption: the locator must designate exactly one
\* element, visible, within the timeout
PerformOn(matching, locator, browser) ==
  IF locator.by = "css" /\ SelectorThrows(locator.sel) THEN SelectorEngineError
  ELSE IF Len(matching) > 1 THEN StrictModeError
  ELSE IF ~FirstIsVisible(matching) \/ ~browser.completes THEN TimeoutError
  ELSE NoError

Perform(dom, locator, browser) == PerformOn(Matching(dom, locator), locator, browser)

\* where a click that redirects leads
ClickTarget(u) == IF u = LoginUrl THEN InventoryUrl ELSE LoginUrl

Performed(r, e, u, after) ==
  IF e # NoError THEN Outcome(FALSE, e, u, r.cache) ELSE Outcome(TRUE, NoError, after, r.cache)

Acted(r, dom, u, browser, after) ==
  IF ~r.ok THEN Outcome(FALSE, r.err, u, r.cache)
  ELSE Performed(r, Perform(dom, r.locator, browser), u, after)

\* resolve the element of the action, then act on it
OnElement(actionObj, dom, u, cache, now, browser, after) ==
  Acted(resolve(dom, u, cache, now, actionObj.locator, actionObj.elementType),
        dom, u, browser, after)

\* the characters of a text that a regular expression reads as operators
Quantifiers == {"+", "?"}

\* new RegExp(source): the source is read as atoms with their quantifiers ("+",
\* "?", each with an optional lazy "?" after it); a quantifier with nothing to
\* repeat and a "(" that no ")" closes are a SyntaxError
RECURSIVE RegExp(_, _, _)
RegExp(source, i, items) ==
  IF i > Len(source) THEN [ok |-> TRUE, items |-> items]
  ELSE IF source[i] \in Quantifiers \cup {"("} THEN [ok |-> FALSE, items |-> <<>>]
  ELSE IF i < Len(source) /\ source[i + 1] \in Quantifiers
  THEN RegExp(source,
              IF i + 2 <= Len(source) /\ source[i + 2] = "?" THEN i + 3 ELSE i + 2,
              Append(items, [atom |-> source[i], q |-> source[i + 1]]))
  ELSE RegExp(source, i + 1, Append(items, [atom |-> source[i], q |-> "1"]))

\* "." stands for any character, any other atom for itself, whatever the case
AtomMatches(atom, t) == atom = "." \/ LowerTok(atom) = LowerTok(t)

\* the items from the k-th on match the text at position j
RECURSIVE MatchFrom(_, _, _, _)
MatchFrom(items, k, text, j) ==
  IF k > Len(items) THEN TRUE
  ELSE IF j > Len(text) \/ ~AtomMatches(items[k].atom, text[j])
  THEN items[k].q = "?" /\ MatchFrom(items, k + 1, text, j)
  ELSE \/ MatchFrom(items, k + 1, text, j + 1)
       \/ items[k].q = "+" /\ MatchFrom(items, k, text, j + 1)
       \/ items[k].q = "?" /\ MatchFrom(items, k + 1, text, j)

\* RegExp.prototype.test with the "i" flag: a match at some position
RegExpTest(items, text) == \E j \in 1..(Len(text) + 1) : MatchFrom(items, 1, text, j)

\* page.waitForURL(new RegExp(expectedUrlPart, "i"), { timeout }) returns
UrlAwaited(regexp, u, browser) ==
  regexp.ok /\ browser.completes /\ RegExpTest(regexp.items, u)

\* waitForUrlStable: page.waitForURL(new RegExp(expected, "i")), then the
\* includes check; every failure is rethrown as the URL assertion error
waitForUrlStable(u, expectedUrlPart, browser) ==
  IF /\ expectedUrlPart # Undefined
     /\ UrlAwaited(RegExp(expectedUrlPart, 1, <<>>), u, browser)
     /\ Includes(ToLowerCase(u), ToLowerCase(expectedUrlPart))
  THEN NoError
  ELSE Err("Error",
           <<"URL assertion failed: expected", SP, Q>> \o Show(expectedUrlPart)
             \o <<Q, ",", SP, "got", SP, Q>> \o u \o <<Q>>)

Asserted(e, u, cache) == Outcome(e = NoError, e, u, cache)

\* the switch of interpretStep
ExecuteAction(actionObj, dom, u, cache, now, browser) ==
  CASE actionObj.action = "navigate" ->
         IF actionObj.value = Undefined
         THEN Outcome(FALSE,
                Err("TypeError",
                    <<"Cannot read properties of undefined (reading 'startsWith')">>),
                u, cache)
         ELSE IF Head(actionObj.value) \notin PathTokens
         THEN Outcome(FALSE, NameNotResolved, u, cache)
         ELSE IF ~browser.completes
         THEN Outcome(FALSE,
                      IF browser.redirects THEN NavigationInterrupted ELSE TimeoutError,
                      u, cache)
         ELSE Outcome(TRUE, NoError, UrlOf(actionObj.value), cache)
    [] actionObj.action \in {"fill", "select"} ->
         OnElement(actionObj, dom, u, cache, now, browser, u)
    [] actionObj.action = "click" ->
         OnElement(actionObj, dom, u, cache, now, browser,
                   IF browser.redirects THEN ClickTarget(u) ELSE u)
    [] actionObj.action = "assertText" ->
         IF browser.completes THEN Outcome(TRUE, NoError, u, cache)
         ELSE Outcome(FALSE,
                Err("Error",
                    <<"Assertion failed: could not find text", SP, Q>>
                      \o Show(actionObj.value) \o <<Q>>),
                u, cache)
    [] actionObj.action = "assertUrl" ->
         Asserted(waitForUrlStable(u, actionObj.value, browser), u, cache)
    [] OTHER ->
         Outcome(FALSE,
                 Err("Error", <<"Unknown", SP, "action", ":", SP, actionObj.action>>),
                 u, cache)

\* the two texts the catch block of interpretStep looks for
UnableToParse == <<"Unable", SP, "to", SP, "parse", SP, "step">>
UnknownAction == <<"Unknown", SP, "action">>

UnrecognizedMessage(step) ==
  <<"Unrecognized steps:", SP, step.keyword, SP>> \o step.text
    \o <<",", SP, "Please implement this step or check the step definition.">>

\* is this the message of a parsing/recognition error?
IsParserError(errorMessage) ==
  Includes(errorMessage, UnableToParse) \/ Includes(errorMessage, UnknownAction)

\* the try block: parse the step, then run its action
TryBlock(parsed, dom, u, cache, now, browser) ==
  IF parsed.ok THEN ExecuteAction(parsed.val, dom, u, cache, now, browser)
  ELSE Outcome(FALSE, parsed.err, u, cache)

\* the catch block: a parser error is replaced by the generic message, any
\* other error is thrown again as it is
CatchBlock(step, out) ==
  IF ~out.ok /\ IsParserError(out.err.message)
  THEN [out EXCEPT !.err = Err("Error", UnrecognizedMessage(step))]
  ELSE out

interpretStep(step, dom, u, cache, now, browser) ==
  CatchBlock(step,
    TryBlock(parseStep(<<step.keyword, SP>> \o step.text, step.response),
             dom, u, cache, now, browser))

----------------------------------------------------------------------------
(* State *)

VARIABLES
  cfg,          \* ExecutionOptions and the environment configuration
  feature,      \* the Feature and Scenario handed to runScenario
  pc,           \* where runScenario stands
  status,       \* the local status of runScenario
  stepResults,  \* the local stepResults of runScenario
  idx,          \* the position of the running loop in its step list
  call,         \* the locals of the executeStepWithRetries call, and what it did
  url,          \* page.url() of the scenario page
  cache,        \* ElementResolver.cache of the runner's resolver
  now,          \* Date.now()
  result,       \* the ScenarioResult runScenario returned
  contextOpen,  \* the scenario's browsing context exists and is not closed
  scenarioShot, \* the catch block of runScenario took its screenshot
  executed,     \* the steps executeStepWithRetries was called on, in call order
  instance,     \* how many ElementResolver objects were constructed so far
  domChanges,   \* how many times the page changed its DOM since it was loaded
  resolutions,  \* the resolve calls made so far and what each of them did
  wait,         \* where the wait after a click stands, and what it did
  parsing,      \* the parseStep call under study: its arguments and its outcome
  pool,         \* the scenarios handed to runAllFeatures and how far each one is
  study         \* the call of a function studied on its own: its arguments and its outcome

\* the state of the studies that zoom in on one method
sideVars == <<wait, parsing, pool, study>>

resolverVars == <<instance, domChanges, resolutions, sideVars>>

vars ==
  <<cfg, feature, pc, status, stepResults, idx, call, url, cache, now, result,
    contextOpen, scenarioShot, executed, instance, domChanges, resolutions,
    wait, parsing, pool, study>>

\* bounds of the model
MaxRetries == 2
MaxBackgroundSteps == 1
MaxScenarioSteps == 2
MaxClock == 1
MaxResolutions == 2
MaxInstances == 2
MaxDomChanges == 1

\* environmentManager.getNumber("RETRIES", 2)
DefaultRetries == 2
\* the RETRIES key is absent from the environment file
Unset == 0 - 1

Config(retries, envRetries, envScreenshots, screenshotOnFailure) ==
  [retries |-> retries, envRetries |-> envRetries, envScreenshots |-> envScreenshots,
   screenshotOnFailure |-> screenshotOnFailure]

\* this.options.retries || environmentManager.getNumber("RETRIES", 2)
MaxRetriesOf(c) ==
  IF c.retries # 0 THEN c.retries
  ELSE IF c.envRetries # Unset THEN c.envRetries ELSE DefaultRetries

\* environmentManager.getBoolean("ENABLE_SCREENSHOTS", true)
EnableScreenshots(c) == c.envScreenshots

Configs ==
  {Config(r, e, s, f) :
     r \in 0..MaxRetries, e \in {Unset} \cup 0..MaxRetries, s \in BOOLEAN, f \in BOOLEAN}

SeqsUpTo(S, n) == UNION {[1..k -> S] : k \in 0..n}

Feature(hasBackground, background, steps) ==
  [hasBackground |-> hasBackground, background |-> background, steps |-> steps]

\* the settings a run is started with when nothing is configured, and the
\* same with everything switched off
BaseConfigs == {Config(0, Unset, TRUE, TRUE), Config(1, 0, FALSE, FALSE)}

\* the steps the longer scenarios are made of
ScenarioCases == {"navPage", "unrecognized"}

\* what runScenario is called with: every step case alone under the base
\* settings, a one-step scenario under every setting, and every short scenario
\* over ScenarioCases, with or without a Background section
Inputs ==
  {<<c, Feature(FALSE, <<>>, <<s>>)>> : c \in BaseConfigs, s \in CaseIds}
    \cup {<<c, Feature(FALSE, <<>>, <<s>>)>> : c \in Configs, s \in ScenarioCases}
    \cup {<<c, Feature(FALSE, <<>>, st)>> :
            c \in BaseConfigs, st \in SeqsUpTo(ScenarioCases, MaxScenarioSteps)}
    \cup {<<c, Feature(TRUE, bg, st)>> :
            c \in BaseConfigs,
            bg \in SeqsUpTo(ScenarioCases, MaxBackgroundSteps),
            st \in SeqsUpTo(ScenarioCases, MaxScenarioSteps)}

NoCall ==
  [phase |-> "none", list |-> "none", step |-> "none", attempt |-> 0,
   firstFailure |-> TRUE, lastError |-> NoError, embeddings |-> 0,
   attemptsRun |-> 0, succeeded |-> FALSE, captures |-> <<>>, errors |-> <<>>,
   waits |-> <<>>]

NoResult == [steps |-> <<>>, status |-> "none"]

\* no click is waiting, no parseStep call is studied, no feature is running
NoWait ==
  [phase |-> "idle", previousUrl |-> <<>>, elapsed |-> 0, navigations |-> 0,
   differed |-> FALSE, full |-> FALSE, short |-> FALSE, fallback |-> FALSE]
NoParsing == [phase |-> "none"]
NoPool == [phase |-> "none"]
NoStudy == [phase |-> "none"]

StepResult(step, st, error, embeddings) ==
  [step |-> step, status |-> st, error |-> error, embeddings |-> embeddings]

Init ==
  /\ \E input \in Inputs : cfg = input[1] /\ feature = input[2]
  /\ pc = "start"
  /\ status = "passed"
  /\ stepResults = <<>>
  /\ idx = 1
  /\ call = NoCall
  /\ url = <<"about:blank">>
  /\ cache = EmptyCache
  /\ now = 0
  /\ result = NoResult
  /\ contextOpen = FALSE
  /\ scenarioShot = FALSE
  /\ executed = <<>>
  /\ instance = 1
  /\ domChanges = 0
  /\ resolutions = <<>>
  /\ wait = NoWait
  /\ parsing = NoParsing
  /\ pool = NoPool
  /\ study = NoStudy

----------------------------------------------------------------------------
(* runScenario *)

\* the loops take their steps from each other's list
ScenarioStepsFirst(list) == IF list = "background" THEN feature.steps ELSE feature.background

\* feature.background.steps of the first loop, scenario.steps of the second
StepList(list) == IF list = "background" THEN feature.background ELSE feature.steps

\* the catch and finally blocks of runScenario: the error is logged, the
\* screenshot is taken when enabled, the result is failed with the step
\* results collected so far, and the context is closed
CatchInRunScenario ==
  /\ scenarioShot' = cfg.screenshotOnFailure
  /\ result' = [steps |-> stepResults, status |-> "failed"]
  /\ pc' = "done"
  /\ contextOpen' = FALSE

\* the control point after a step result was pushed: the loop breaks on a
\* failed result, goes on with its next step, or hands over to the next loop
Continue(list, i, st) ==
  IF st = "failed" THEN <<"end", i>>
  ELSE IF i <= Len(StepList(list)) THEN <<list, i>>
  ELSE IF list = "background" /\ Len(feature.steps) > 0 THEN <<"steps", 1>>
  ELSE <<"end", i>>

\* createScenarioContext, newPage and the goto of the base URL
Start ==
  /\ pc = "start"
  /\ \E launch \in {"ok", "contextFails", "pageFails", "gotoFails"} :
       CASE launch = "contextFails" ->
              \* thrown before the try block: runScenario rejects
              /\ pc' = "rejected"
              /\ UNCHANGED <<url, contextOpen, result, scenarioShot, idx>>
         [] launch = "pageFails" ->
              \* scenarioContext.newPage() throws, before the try block as
              \* well: runScenario rejects and the finally block is not run
              /\ pc' = "rejected"
              /\ contextOpen' = TRUE
              /\ UNCHANGED <<url, result, scenarioShot, idx>>
         [] launch = "gotoFails" ->
              /\ CatchInRunScenario
              /\ UNCHANGED <<url, idx>>
         [] OTHER ->
              /\ url' = LoginUrl
              /\ contextOpen' = TRUE
              /\ LET c == IF feature.hasBackground
                          THEN Continue("background", 1, status)
                          ELSE Continue("steps", 1, status)
                 IN pc' = c[1] /\ idx' = c[2]
              /\ UNCHANGED <<result, scenarioShot>>
  /\ UNCHANGED <<cfg, feature, status, stepResults, call, cache, now, executed>>
  /\ UNCHANGED resolverVars

\* the loop takes its next step and calls executeStepWithRetries
BeginStep ==
  /\ pc \in {"background", "steps"}
  /\ call.phase \notin {"loop", "final"}
  /\ idx <= Len(StepList(pc))
  /\ call' = [NoCall EXCEPT !.phase = "loop", !.list = pc, !.step = StepList(pc)[idx]]
  /\ executed' = Append(executed, StepList(pc)[idx])
  /\ UNCHANGED <<cfg, feature, pc, status, stepResults, idx, url, cache, now, result,
                 contextOpen, scenarioShot>>
  /\ UNCHANGED resolverVars

\* what a diagnostic capture meets: takeScreenshotForPage returns a path or
\* swallows its error, DOMDebugHelper.capturePageInfo returns or throws
Diagnostics == {[shot |-> s, info |-> i] : s \in BOOLEAN, i \in BOOLEAN}

\* path.join(debugDir, `dom_${stepName}_${timestamp}.json`): a '/' of the step
\* text makes the file name a path into a directory that does not exist
FileNameBreaks(text) == \E i \in 1..Len(text) : text[i] \in PathTokens

\* capturePageInfo throws: page.evaluate, writeFileSync or page.screenshot fails
CaptureThrows(step, d) == ~d.info \/ FileNameBreaks(step.text)

Capture(kind, c, d) ==
  [c EXCEPT !.captures = Append(@, [kind |-> kind, attempt |-> c.attempt]),
            !.embeddings = IF d.shot THEN @ + 1 ELSE @]

\* the result is pushed and the loop decides how to go on
Push(r) ==
  /\ stepResults' = Append(stepResults, r)
  /\ status' = IF r.status = "failed" THEN "failed" ELSE status
  /\ LET c == Continue(pc, idx + 1, r.status)
     IN pc' = c[1] /\ idx' = c[2]

\* the page field of the ScenarioRunner: null, setup() never assigns it
NoPage == 0

\* the backoff between two attempts, in milliseconds
BackoffMs == 1000

\* page?.waitForTimeout(ms): the time the call waits; nothing is called on a
\* null page
waitForTimeout(page, ms) == IF page = NoPage THEN 0 ELSE ms

\* the passed result is returned as executeStep built it
NoResultEmbeddings(stepEmbeddings) == 0

\* if (stepEmbeddings.length > 0) result.embeddings = stepEmbeddings: the
\* number of embeddings of the passed result
ResultEmbeddings(stepEmbeddings) == stepEmbeddings

\* the catch block keeps the error it caught first
FirstCaught(lastError, error) == IF lastError = NoError THEN error ELSE lastError

\* lastError = error as Error
Caught(lastError, error) == error

\* serializeError: the name and the message of the error are copied
serializeError(error) == [name |-> error.name, message |-> error.message]

\* one round of the retry loop of executeStepWithRetries
Attempt ==
  /\ call.phase = "loop"
  /\ \E browser \in Browsers :
     \E out \in {interpretStep(Cases[call.step], PageDom(url), url, cache, now, browser)} :
     \E tick \in 0..1, d \in Diagnostics :
       LET ran == [call EXCEPT !.attemptsRun = @ + 1]
           failed == [ran EXCEPT !.lastError = Caught(@, out.err),
                                 !.errors = Append(@, out.err)]
           captured == IF call.firstFailure /\ EnableScreenshots(cfg)
                       THEN Capture("FIRST_FAILURE", failed, d)
                       ELSE failed
           captureThrows == call.firstFailure /\ EnableScreenshots(cfg)
                              /\ CaptureThrows(Cases[call.step], d)
           next == [captured EXCEPT
                      !.firstFailure = FALSE,
                      \* this.page of the runner is null: no statement assigns it
                      !.waits = IF call.attempt < MaxRetriesOf(cfg)
                                THEN Append(@, waitForTimeout(NoPage, BackoffMs))
                                ELSE @,
                      !.attempt = @ + 1,
                      !.phase = IF call.attempt + 1 <= MaxRetriesOf(cfg)
                                THEN "loop" ELSE "final"]
       IN /\ url' = out.url
          /\ cache' = out.cache
          /\ now' = IF now + tick <= MaxClock THEN now + tick ELSE now
          /\ IF out.ok
             THEN /\ call' = [ran EXCEPT !.phase = "returned", !.succeeded = TRUE]
                  /\ Push(StepResult(call.step, "passed", NoError,
                                   ResultEmbeddings(call.embeddings)))
                  /\ UNCHANGED <<result, contextOpen, scenarioShot>>
             ELSE IF captureThrows
             THEN /\ call' = [captured EXCEPT !.phase = "threw"]
                  /\ CatchInRunScenario
                  /\ UNCHANGED <<status, stepResults, idx>>
             ELSE /\ call' = next
                  /\ UNCHANGED <<pc, status, stepResults, idx, result, contextOpen,
                                 scenarioShot>>
  /\ UNCHANGED <<cfg, feature, executed>>
  /\ UNCHANGED resolverVars

\* after the loop: the final capture and the failed StepResult
FinalFailure ==
  /\ call.phase = "final"
  /\ \E d \in Diagnostics :
       LET capturing == MaxRetriesOf(cfg) > 0 /\ EnableScreenshots(cfg)
           captured == IF capturing THEN Capture("FINAL_FAILURE", call, d) ELSE call
       IN IF capturing /\ CaptureThrows(Cases[call.step], d)
          THEN /\ call' = [captured EXCEPT !.phase = "threw"]
               /\ CatchInRunScenario
               /\ UNCHANGED <<status, stepResults, idx>>
          ELSE /\ call' = [captured EXCEPT !.phase = "returned"]
               /\ Push(StepResult(call.step, "failed", serializeError(call.lastError),
                                   captured.embeddings))
               /\ UNCHANGED <<result, contextOpen, scenarioShot>>
  /\ UNCHANGED <<cfg, feature, url, cache, now, executed>>
  /\ UNCHANGED resolverVars

\* the return of the try block and the finally block
Finish ==
  /\ pc = "end"
  /\ result' = [steps |-> stepResults, status |-> status]
  /\ pc' = "done"
  /\ contextOpen' = FALSE
  /\ UNCHANGED <<cfg, feature, status, stepResults, idx, call, url, cache, now,
                 scenarioShot, executed>>
  /\ UNCHANGED resolverVars

Next == Start \/ BeginStep \/ Attempt \/ FinalFailure \/ Finish

Spec == Init /\ [][Next]_vars

----------------------------------------------------------------------------
(* The element resolver on its own: resolve calls on a page, by one        *)
(* ElementResolver object after another                                     *)

\* the descriptors the steps of a page ask for: (elementName, elementType)
TargetsOn(u) ==
  IF u = LoginUrl
  THEN { <<<<"password">>, "input">>, <<<<"Login">>, "button">>,
         <<<<"missing">>, "button">> }
  ELSE { <<<<"size">>, "dropdown">>, <<<<"Menu">>, "button">>, <<<<"size">>, "link">>,
         <<<<"Coupon">>, "input">> }

Targets == TargetsOn(LoginUrl) \cup TargetsOn(InventoryUrl)

\* the DOM of the page after n changes: each change removes its first element
DomAfter(dom, n) == SubSeq(dom, n + 1, Len(dom))

\* what one resolve call was asked and what it did
Resolution(inst, u, dom, at, target, r) ==
  [instance |-> inst, url |-> u, dom |-> dom, at |-> at, name |-> target[1],
   type |-> target[2], ok |-> r.ok, locator |-> r.locator, tier |-> r.tier,
   scanned |-> r.scanned, err |-> r.err]

ResolverInit ==
  /\ cfg = Config(0, Unset, TRUE, TRUE)
  /\ feature = Feature(FALSE, <<>>, <<>>)
  /\ pc = "resolving"
  /\ status = "passed"
  /\ stepResults = <<>>
  /\ idx = 1
  /\ call = NoCall
  /\ url \in {LoginUrl, InventoryUrl}
  /\ cache = EmptyCache
  /\ now = 0
  /\ result = NoResult
  /\ contextOpen = TRUE
  /\ scenarioShot = FALSE
  /\ executed = <<>>
  /\ instance = 1
  /\ domChanges = 0
  /\ resolutions = <<>>
  /\ wait = NoWait
  /\ parsing = NoParsing
  /\ pool = NoPool
  /\ study = NoStudy

runnerVars ==
  <<cfg, feature, pc, status, stepResults, idx, call, result, contextOpen, scenarioShot,
    executed, sideVars>>

\* elementResolver.resolve(page, elementName, elementType)
Resolve ==
  /\ pc = "resolving"
  /\ Len(resolutions) < MaxResolutions
  /\ \E target \in TargetsOn(url) :
     \E r \in {resolve(DomAfter(PageDom(url), domChanges), url, cache, now,
                       target[1], target[2])} :
       /\ cache' = r.cache
       /\ resolutions' = Append(resolutions,
                                Resolution(instance, url, domChanges, now, target, r))
  /\ UNCHANGED <<url, now, instance, domChanges>>
  /\ UNCHANGED runnerVars

\* a millisecond passes: Date.now() answers the next number
Tick ==
  /\ pc = "resolving"
  /\ now < MaxClock
  /\ now' = now + 1
  /\ UNCHANGED <<url, cache, instance, domChanges, resolutions>>
  /\ UNCHANGED runnerVars

\* the page changes its DOM
DomChange ==
  /\ pc = "resolving"
  /\ domChanges < MaxDomChanges
  /\ domChanges' = domChanges + 1
  /\ UNCHANGED <<url, cache, now, instance, resolutions>>
  /\ UNCHANGED runnerVars

\* new ElementResolver(): the object starts with cache = new Map()
NewResolver ==
  /\ pc = "resolving"
  /\ instance < MaxInstances
  /\ instance' = instance + 1
  /\ cache' = EmptyCache
  /\ UNCHANGED <<url, now, domChanges, resolutions>>
  /\ UNCHANGED runnerVars

ResolverNext == Resolve \/ Tick \/ DomChange \/ NewResolver

SpecResolver == ResolverInit /\ [][ResolverNext]_vars

----------------------------------------------------------------------------
(* Properties of the retry loop *)

\* the executeStepWithRetries call has ended, by a return or by a throw
CallEnded == call.phase \in {"returned", "threw"}

\* the call has ended and none of its attempts succeeded
Exhausted == CallEnded /\ ~call.succeeded

\* C1: with R the effective retry limit, executeStepWithRetries runs the
\* attempt at most R+1 times, runs none after an attempt that succeeded, and
\* has run it exactly R+1 times when it ends without a successful attempt.
AttemptsAreRPlusOne ==
  /\ call.attemptsRun <= MaxRetriesOf(cfg) + 1
  /\ call.succeeded => call.phase = "returned"
  /\ Exhausted => call.attemptsRun = MaxRetriesOf(cfg) + 1

\* C2: with R >= 1 and screenshots enabled, a call whose every attempt failed
\* has made exactly two diagnostic captures when it ends: the first-failure
\* capture at attempt 0 and the final-failure capture after the last attempt.
TwoCapturesWhenExhausted ==
  (Exhausted /\ MaxRetriesOf(cfg) >= 1 /\ EnableScreenshots(cfg))
    => call.captures =
         << [kind |-> "FIRST_FAILURE", attempt |-> 0],
            [kind |-> "FINAL_FAILURE", attempt |-> MaxRetriesOf(cfg) + 1] >>

----------------------------------------------------------------------------
(* Properties of the error a failed step carries *)

FullStepText(step) == <<step.keyword, SP>> \o step.text

\* the classifier answers no intent and the text has no navigation phrasing
Unclassifiable(step) ==
  /\ NoIntent(step.response)
  /\ ~Includes(ToLowerCase(FullStepText(step)), <<"is", SP, "on">>)
  /\ ~Includes(ToLowerCase(FullStepText(step)), <<"goes", SP, "to">>)

\* the actions the switch of interpretStep executes
ExecutedActions == {"navigate", "fill", "click", "select", "assertText", "assertUrl"}

\* the step is parsed into an action that the switch executes
Recognized(parsed) == parsed.ok /\ parsed.val.action \in ExecutedActions

\* C3: the StepResult of a step that cannot be classified is failed and its
\* error has the uniform message "Unrecognized steps: <keyword> <text>,
\* Please implement this step or check the step definition."
UnclassifiableGetsUniformMessage ==
  \A i \in 1..Len(stepResults) :
    Unclassifiable(Cases[stepResults[i].step])
      => /\ stepResults[i].status = "failed"
         /\ stepResults[i].error.message = UnrecognizedMessage(Cases[stepResults[i].step])

\* C4: the StepResult of a step classified as check, uncheck or assertVisible,
\* the intents that have no executor, is failed and its error has the uniform
\* unrecognized-step message.
NoExecutorGetsUniformMessage ==
  \A i \in 1..Len(stepResults) :
    Cases[stepResults[i].step].response.intent \in {"check", "uncheck", "assertVisible"}
      => /\ stepResults[i].status = "failed"
         /\ stepResults[i].error.message = UnrecognizedMessage(Cases[stepResults[i].step])

\* C5: the failed StepResult of a recognized step, one that was parsed into an
\* action the switch executes, never carries the generic unrecognized-step
\* message in place of the execution error.
ExecutionErrorKeepsItsMessage ==
  \A i \in 1..Len(stepResults) :
    ( /\ stepResults[i].status = "failed"
      /\ Recognized(parseStep(FullStepText(Cases[stepResults[i].step]),
                              Cases[stepResults[i].step].response)) )
      => stepResults[i].error.message # UnrecognizedMessage(Cases[stepResults[i].step])

----------------------------------------------------------------------------
(* Properties of the ScenarioResult *)

SomeFailed(steps) == \E i \in 1..Len(steps) : steps[i].status = "failed"

\* C6: once a StepResult is failed no later step is executed, after a failed
\* background step no scenario step is executed, and the ScenarioResult
\* returned holds one StepResult for each step that was executed, in order.
FailureStopsAndAllResultsReturned ==
  /\ \A i \in 1..Len(stepResults) :
       stepResults[i].status = "failed" => Len(executed) = i
  /\ pc = "done"
       => /\ Len(result.steps) = Len(executed)
          /\ \A i \in 1..Len(result.steps) : result.steps[i].step = executed[i]

\* C7: the ScenarioResult returned is failed exactly when one of its
\* StepResults is failed, and passed when it has StepResults and none failed.
FailedExactlyWhenAStepFailed ==
  pc = "done"
    => /\ result.status = "failed" <=> SomeFailed(result.steps)
       /\ (Len(result.steps) > 0 /\ ~SomeFailed(result.steps)) => result.status = "passed"

\* C8: a scenario without background steps and without scenario steps, which
\* returns without a failure, has status skipped.
ZeroStepsIsSkipped ==
  ( /\ pc = "done"
    /\ Len(feature.background) = 0
    /\ Len(feature.steps) = 0
    /\ result.status # "failed" )
    => result.status = "skipped"

----------------------------------------------------------------------------
(* Properties of the selector cache *)

\* two resolutions of the same element on the same page with the same DOM
SameRequest(a, b) ==
  a.url = b.url /\ a.dom = b.dom /\ a.name = b.name /\ a.type = b.type

\* the resolve call stored the selector it found in the cache
StoredSelector(a) == a.ok /\ a.tier \in {"type", "quick", "dom"}

\* C9: when an ElementResolver resolves the same element twice in a row with
\* no DOM change in between and the first call succeeded, the second call
\* succeeds with the same selector and is answered by the cache hit, without
\* the structural scan.
SecondResolveIsCacheHit ==
  \A i \in 1..(Len(resolutions) - 1) :
    ( /\ resolutions[i].instance = resolutions[i + 1].instance
      /\ SameRequest(resolutions[i], resolutions[i + 1])
      /\ resolutions[i].ok )
      => /\ resolutions[i + 1].ok
         /\ resolutions[i + 1].locator = resolutions[i].locator
         /\ resolutions[i + 1].tier = "cache"
         /\ ~resolutions[i + 1].scanned

\* C10: a selector stored by one ElementResolver is used directly by an
\* ElementResolver constructed later for the same page and element: its call
\* is answered by the stored selector, not by the strategies or the scan.
FreshResolverReadsStoredSelector ==
  \A i \in 1..Len(resolutions) : \A j \in 1..Len(resolutions) :
    ( /\ i < j
      /\ resolutions[i].instance < resolutions[j].instance
      /\ SameRequest(resolutions[i], resolutions[j])
      /\ StoredSelector(resolutions[i]) )
      => /\ resolutions[j].ok
         /\ resolutions[j].locator = resolutions[i].locator
         /\ resolutions[j].tier = "cache"

----------------------------------------------------------------------------
(* Properties of the resolution cascade *)

\* the DOM a recorded resolve call ran on
DomOf(a) == DomAfter(PageDom(a.url), a.dom)

\* what each semantic tier finds for the descriptor of a recorded call
TypeFinds(a) == tryTypeSpecificStrategies(DomOf(a), a.name, a.type) # NoSel

RoleFinds(a) ==
  /\ a.type = "button"
  /\ \/ FoundVisible(DomOf(a), GetByRole("button", a.name, TRUE))
     \/ FoundVisible(DomOf(a), GetByRole("button", a.name, FALSE))

QuickFinds(a) == tryQuickStrategies(DomOf(a), a.name) # NoSel

SemanticTiers == {"type", "role", "quick"}

\* the tier order holds for one recorded call
InTierOrder(a) ==
  /\ a.tier \in SemanticTiers => a.ok /\ ~a.scanned
  /\ a.tier = "cache" => ~a.scanned
  /\ a.tier = "role" => ~TypeFinds(a)
  /\ a.tier = "quick" => ~TypeFinds(a) /\ ~RoleFinds(a)
  /\ a.scanned => ~TypeFinds(a) /\ ~RoleFinds(a) /\ ~QuickFinds(a)
  /\ (a.tier # "cache" /\ (TypeFinds(a) \/ RoleFinds(a) \/ QuickFinds(a)))
       => a.tier \in SemanticTiers

\* C11: a resolve call answered by a semantic tier (type-specific, role or
\* quick strategies) returns without invoking analyzeElement; the scan is
\* invoked only when the cache and every semantic tier found nothing, and a
\* later tier answers only when every earlier tier found nothing.
ScanOnlyAfterSemanticTiers ==
  \A i \in 1..Len(resolutions) : InTierOrder(resolutions[i])

\* a call answered by a semantic tier for an element that the structural scan
\* would match as well, and a call that went down to the scan
SemanticTierAnsweredBeforeScan ==
  /\ \E i \in 1..Len(resolutions) :
       /\ resolutions[i].tier \in SemanticTiers
       /\ \E k \in 1..Len(DomOf(resolutions[i])) :
            elementMatches(DomOf(resolutions[i])[k], resolutions[i].name)
  /\ \E i \in 1..Len(resolutions) : resolutions[i].scanned

\* C12: the locator returned by a resolve call that did not throw designates,
\* on the DOM of that call, at least one element of which the first is
\* visible: it is the expression a visible element was found with.
ReturnedLocatorFindsVisible ==
  \A i \in 1..Len(resolutions) :
    resolutions[i].ok => FoundVisible(DomOf(resolutions[i]), resolutions[i].locator)

\* C13: a resolve call for which no tier found an element throws, and the
\* message of its error names the descriptor and states how many frames were
\* searched.
NotFoundNamesFrames ==
  \A i \in 1..Len(resolutions) :
    resolutions[i].tier = "none"
      => /\ ~resolutions[i].ok
         /\ Includes(resolutions[i].err.message, resolutions[i].name)
         /\ \E k \in 1..Len(resolutions[i].err.message) :
              resolutions[i].err.message[k] \in {"frame", "frames"}

----------------------------------------------------------------------------
(* The wait after a click on its own: waitForRedirectOrPageStable and the   *)
(* page it watches                                                          *)

\* how often the page may navigate while a click is waited for
MaxNavigations == 2

\* waitForUrlChange(page, previousUrl, 2000), in milliseconds
UrlChangeTimeout == 2000
\* page.waitForTimeout(100), in milliseconds
PollInterval == 100

\* the URLs the page moves between
Pages == {LoginUrl, InventoryUrl}

\* everything outside the study at hand: no scenario runs, the resolver is new
Calm(position) ==
  /\ cfg = Config(0, Unset, TRUE, TRUE)
  /\ feature = Feature(FALSE, <<>>, <<>>)
  /\ pc = position
  /\ status = "passed"
  /\ stepResults = <<>>
  /\ idx = 1
  /\ call = NoCall
  /\ cache = EmptyCache
  /\ now = 0
  /\ result = NoResult
  /\ contextOpen = TRUE
  /\ scenarioShot = FALSE
  /\ executed = <<>>
  /\ instance = 1
  /\ domChanges = 0
  /\ resolutions = <<>>

calmVars ==
  <<cfg, feature, pc, status, stepResults, idx, call, cache, now, result, contextOpen,
    scenarioShot, executed, instance, domChanges, resolutions>>

\* the same, and no function is studied on its own
Quiet(position) == Calm(position) /\ study = NoStudy

quietVars == <<calmVars, study>>

WaitInit ==
  /\ Quiet("clicking")
  /\ url \in Pages
  /\ wait = NoWait
  /\ parsing = NoParsing
  /\ pool = NoPool

\* case "click": currenturl = page.url(), clickLocator.click(), and the call of
\* waitForRedirectOrPageStable, whose waitForUrlChange takes its startTime
Click ==
  /\ pc = "clicking"
  /\ wait.phase = "idle"
  /\ wait' = [wait EXCEPT !.phase = "polling", !.previousUrl = url]
  /\ UNCHANGED <<url, parsing, pool>>
  /\ UNCHANGED quietVars

\* the page navigates while the click is waited for
Navigate ==
  /\ pc = "clicking"
  /\ wait.navigations < MaxNavigations
  /\ \/ wait.phase = "sleeping"
     \/ wait.phase = "polling" /\ wait.elapsed < UrlChangeTimeout
  /\ \E u \in Pages \ {url} :
       /\ url' = u
       /\ wait' = [wait EXCEPT !.navigations = @ + 1,
                               !.differed = @ \/ u # wait.previousUrl]
  /\ UNCHANGED <<parsing, pool>>
  /\ UNCHANGED quietVars

\* one test of the while loop of waitForUrlChange, and what follows the return
\* of waitForUrlChange in waitForRedirectOrPageStable
Poll ==
  /\ pc = "clicking"
  /\ wait.phase = "polling"
  /\ wait' = IF wait.elapsed < UrlChangeTimeout
             THEN IF url # wait.previousUrl
                  THEN [wait EXCEPT !.phase = "redirected"]
                  ELSE [wait EXCEPT !.phase = "sleeping"]
             ELSE [wait EXCEPT !.phase = "unchanged"]
  /\ UNCHANGED <<url, parsing, pool>>
  /\ UNCHANGED quietVars

\* page.waitForTimeout(100) returns, or rejects because the page was closed
Sleep ==
  /\ pc = "clicking"
  /\ wait.phase = "sleeping"
  /\ \E closed \in BOOLEAN :
       wait' = IF closed
               THEN [wait EXCEPT !.phase = "caught"]
               ELSE [wait EXCEPT !.phase = "polling", !.elapsed = @ + PollInterval]
  /\ UNCHANGED <<url, parsing, pool>>
  /\ UNCHANGED quietVars

\* the branches of waitForRedirectOrPageStable: waitForPageStable(page),
\* waitForPageStable(page, {short: true}), and the fallback of the catch block
Stabilize ==
  /\ pc = "clicking"
  /\ wait.phase \in {"redirected", "unchanged", "caught"}
  /\ wait' = [wait EXCEPT !.phase = "done",
                          !.full = wait.phase = "redirected",
                          !.short = wait.phase = "unchanged",
                          !.fallback = wait.phase = "caught"]
  /\ UNCHANGED <<url, parsing, pool>>
  /\ UNCHANGED quietVars

WaitNext == Click \/ Navigate \/ Poll \/ Sleep \/ Stabilize

SpecWait == WaitInit /\ [][WaitNext]_vars

----------------------------------------------------------------------------
(* Properties of the wait after a click *)

\* C14: when the wait after a click has ended without an error, the full
\* page-stability wait was performed exactly when the page URL differed from the
\* URL recorded before the click at some moment of the poll window, otherwise
\* only the short wait was performed, and never both.
FullWaitExactlyWhenUrlDiffered ==
  (wait.phase = "done" /\ ~wait.fallback) =>
    /\ wait.full <=> wait.differed
    /\ ~wait.differed => wait.short
    /\ ~(wait.full /\ wait.short)

----------------------------------------------------------------------------
(* parseStep on its own: one call for every step text and every answer the  *)
(* classifier may give for it                                               *)

Span(start, sourceText) == [start |-> start, sourceText |-> sourceText]
ParserStep(text, spans) == [text |-> text, spans |-> spans]

\* step texts, each with the spans of it the classifier extracts as entities
ParserSteps ==
  { ParserStep(<<"Given", SP, "user", SP, "is", SP, "on", SP, "the", SP, "login", SP, "page">>,
               <<Span(17, <<"the", SP, "login", SP, "page">>)>>),
    ParserStep(<<"When", SP, "user", SP, "goes", SP, "to", SP>> \o Quoted(<<"/inventory">>),
               <<Span(18, Quoted(<<"/inventory">>))>>),
    ParserStep(<<"When", SP, "user", SP, "Fill", SP>> \o Quoted(<<"secret_sauce">>)
                 \o <<SP, "in", SP>> \o Quoted(<<"password">>) \o <<SP, "input">>,
               <<Span(15, Quoted(<<"secret_sauce">>)),
                 Span(33, Quoted(<<"password">>) \o <<SP, "input">>)>>),
    ParserStep(<<"When", SP, "user", SP, "Fill", SP>>
                 \o Quoted(<<"{user.name}", ":", "{user.name}">>)
                 \o <<SP, "in", SP>> \o Quoted(<<"Username">>) \o <<SP, "input">>,
               <<Span(15, Quoted(<<"{user.name}", ":", "{user.name}">>)),
                 Span(44, Quoted(<<"Username">>) \o <<SP, "input">>)>>),
    ParserStep(<<"When", SP, "user", SP, "Fill", SP>> \o Quoted(<<"{user.missing}">>)
                 \o <<SP, "in", SP>> \o Quoted(<<"Username">>) \o <<SP, "input">>,
               <<Span(15, Quoted(<<"{user.missing}">>)),
                 Span(35, Quoted(<<"Username">>) \o <<SP, "input">>)>>),
    ParserStep(<<"When", SP, "user", SP, "Select", SP>> \o Quoted(<<"Large">>)
                 \o <<SP, "from", SP>> \o Quoted(<<"size">>) \o <<SP, "dropdown">>,
               <<Span(17, Quoted(<<"Large">>)),
                 Span(30, Quoted(<<"size">>) \o <<SP, "dropdown">>)>>),
    ParserStep(<<"Then", SP, "user", SP, "should", SP, "see", SP, "a", SP>>
                 \o Quoted(<<"Welcome", SP, "{user.name}">>) \o <<SP, "message">>,
               <<Span(23, Quoted(<<"Welcome", SP, "{user.name}">>))>>),
    ParserStep(<<"Then", SP, "user", SP, "should", SP, "redirected", SP, "to", SP,
                 "the", SP, "{user.name}", SP, "page">>,
               <<Span(30, <<"the", SP, "{user.name}", SP, "page">>)>>),
    ParserStep(<<"When", SP, "user", SP, "check", SP, "terms">>, <<>>),
    ParserStep(<<"When", SP, "Frobnicate", SP, "the", SP, "whatsit">>, <<>>) }

\* the names manager.process may answer: the trained intents, no intent, and a
\* name outside IntentMap
ClassifierIntents == IntentNames \cup {"None", "", "greet"}

\* the entity names of the conditions the classifier is trained with
EntityRoles == {"value", "element", "page", "message"}

\* response.entities: every span under the name the classifier gave it, in the
\* order of the text or in the opposite order
Tagged(spans, roles, reversed) ==
  [i \in 1..Len(spans) |->
     LET j == IF reversed THEN Len(spans) + 1 - i ELSE i
     IN Ent(roles[j], spans[j].start, spans[j].sourceText)]

ParserCalls ==
  UNION { { [text |-> s.text, response |-> Resp(intent, Tagged(s.spans, roles, reversed))] :
              intent \in ClassifierIntents,
              roles \in [1..Len(s.spans) -> EntityRoles],
              reversed \in BOOLEAN } :
          s \in ParserSteps }

ParserInit ==
  /\ Quiet("parsing")
  /\ url = LoginUrl
  /\ wait = NoWait
  /\ \E c \in ParserCalls :
       parsing = [phase |-> "called", text |-> c.text, response |-> c.response,
                  out |-> Throw(NoError)]
  /\ pool = NoPool

\* parseStep(stepText) returns its StepAction or throws
Parse ==
  /\ pc = "parsing"
  /\ parsing.phase = "called"
  /\ parsing' = [parsing EXCEPT !.phase = "returned",
                                !.out = parseStep(parsing.text, parsing.response)]
  /\ UNCHANGED <<url, wait, pool>>
  /\ UNCHANGED quietVars

ParserNext == Parse

SpecParser == ParserInit /\ [][ParserNext]_vars

----------------------------------------------------------------------------
(* Properties of parseStep *)

\* the step text holds "is on" or "goes to", in any letter case
NavigationPhrased(text) ==
  \E i \in 1..(Len(text) - 2) :
    /\ <<LowerTok(text[i]), LowerTok(text[i + 2])>> \in {<<"is", "on">>, <<"goes", "to">>}
    /\ text[i + 1] = SP

\* the first '/'-prefixed path of the text, or "unknown" when it holds none
LiteralPath(text) ==
  IF \E i \in 1..Len(text) : text[i] \in PathTokens
  THEN <<text[CHOOSE i \in 1..Len(text) :
                 text[i] \in PathTokens /\ \A j \in 1..(i - 1) : text[j] \notin PathTokens]>>
  ELSE <<"unknown">>

Returned == pc = "parsing" /\ parsing.phase = "returned"

NavigateTo(out, value) ==
  out.ok /\ out.val.action = "navigate" /\ out.val.value = value

\* C15 as stated: for every step text with a navigation phrasing parseStep
\* returns a navigate Action whose value is the first literal path of the text,
\* or "unknown" when the text holds no path, whatever intent the classifier
\* returned.
NavigationPhrasingAlwaysNavigates ==
  (Returned /\ NavigationPhrased(parsing.text))
    => NavigateTo(parsing.out, LiteralPath(parsing.text))

\* C15 as amended: for every step text with a navigation phrasing for which the
\* classifier returned no intent, parseStep returns a navigate Action whose
\* value is the first literal path of the text, or "unknown" when the text
\* holds no path; when the classifier returned the navigate intent and the text
\* holds a path, the Action is navigate with that path too.
NavigationFallbackNavigates ==
  (Returned /\ NavigationPhrased(parsing.text)) =>
    /\ parsing.response.intent \in {"", "None"}
         => NavigateTo(parsing.out, LiteralPath(parsing.text))
    /\ (parsing.response.intent = "navigate" /\ LiteralPath(parsing.text) # <<"unknown">>)
         => NavigateTo(parsing.out, LiteralPath(parsing.text))

\* the fallback answered for a text without a path
FallbackAnsweredUnknown ==
  /\ Returned
  /\ NavigationPhrased(parsing.text)
  /\ parsing.response.intent = "None"
  /\ NavigateTo(parsing.out, <<"unknown">>)

\* the text with every placeholder token replaced by the test data of its key
Substituted(text) ==
  Flatten([i \in 1..Len(text) |->
             IF text[i] \in PlaceholderTokens
             THEN GetData(PlaceholderKey(text[i]))
             ELSE <<text[i]>>])

\* the entity span that has rank - 1 spans starting before it
SpanAt(entities, rank) ==
  LET i == CHOOSE k \in 1..Len(entities) :
             Cardinality({j \in 1..Len(entities) : entities[j].start < entities[k].start})
               = rank - 1
  IN entities[i]

ValueAndElementIntents == {"fill", "select", "check", "uncheck"}

\* C16: for fill, select, check and uncheck with at least two entity spans, the
\* returned Action has as value the text of the span with the smallest start
\* offset and as locator the text of the next span, quotes and a trailing type
\* noun removed, whichever names the classifier gave the spans.
SlotsFollowSpanOrder ==
  (/\ Returned
   /\ parsing.response.intent \in ValueAndElementIntents
   /\ Len(parsing.response.entities) >= 2
   /\ parsing.out.ok)
    => /\ parsing.out.val.value =
            Substituted(Trim(StripQuotes(SpanAt(parsing.response.entities, 1).sourceText)))
       /\ parsing.out.val.locator =
            Trim(StripTrailingNoun(
                   StripQuotes(SpanAt(parsing.response.entities, 2).sourceText),
                   ElementNouns))

PlaceholderIntents == ValueAndElementIntents \cup {"assertText", "assertUrl"}

\* the slot of the entities an intent takes its value from
ValueSlot(intent, e) ==
  CASE intent = "assertText" -> IF Truthy(e["message"]) THEN e["message"] ELSE e["value"]
    [] intent = "assertUrl" -> e["page"]
    [] OTHER -> e["value"]

\* the keys of the placeholders of a slot that have no test data
KeysWithoutData(slot) ==
  {PlaceholderKey(slot[i]) : i \in {j \in 1..Len(slot) :
                                      /\ slot[j] \in PlaceholderTokens
                                      /\ GetData(PlaceholderKey(slot[j])) = Undefined}}

DataNotFound(err, key) ==
  err.name = "Error" /\ Includes(err.message, <<"Error: No data found for key:", SP, key>>)

\* the value slot of the call at hand, absent or a text
SlotOfCall ==
  ValueSlot(parsing.response.intent, ExtractEntities(parsing.text, parsing.response))

\* C17: for fill, select, check, uncheck, assertText and assertUrl the returned
\* Action holds the value slot with every placeholder replaced by the test data
\* of its key, parseStep fails with the data-not-found error when a key has no
\* data, and a value slot without a placeholder is returned as it is.
PlaceholdersAreResolved ==
  (Returned /\ parsing.response.intent \in PlaceholderIntents) =>
    IF SlotOfCall # Undefined /\ KeysWithoutData(SlotOfCall) # {}
    THEN /\ ~parsing.out.ok
         /\ \E key \in KeysWithoutData(SlotOfCall) : DataNotFound(parsing.out.err, key)
    ELSE /\ parsing.out.ok
         /\ parsing.out.val.value =
              IF SlotOfCall = Undefined THEN Undefined ELSE Substituted(SlotOfCall)

\* the error of a step that no intent applies to
Unrecognized(err, text) ==
  err.name = "Error" /\ err.message = <<"Step not recognized:", SP>> \o text

\* the classifier answered a name, and IntentMap has no entry of that name
IntentWithoutEntry(response) ==
  response.intent \notin {"", "None"} /\ response.intent \notin IntentNames

----------------------------------------------------------------------------
(* runAllFeatures on one feature: the scenarios handed to the shared         *)
(* ScenarioRunner, in parallel under pLimit or one after the other          *)

\* how many scenarios the feature has at most, the largest MAX_WORKERS, and
\* how many steps a scenario has
MaxScenarios == 3
MaxWorkers == 2
MaxPoolSteps == 2

\* pLimit(options.maxParallel || 2)
DefaultMaxParallel == 2


\* the limit with the configured maximum left out of it
NoLimit(maxParallel) == MaxScenarios

Limit(maxParallel) == IF maxParallel = Unset THEN DefaultMaxParallel ELSE maxParallel

\* "if (options.parallel)" of runAllFeatures; runSingleFeature has the
\* sequential loop only
Parallel(options) == options.parallel /\ options.entry = "runAllFeatures"

\* how many runScenario calls may be pending: the limit in parallel mode, one
\* in the sequential loop that awaits every call
Slots(options) == IF Parallel(options) THEN Limit(options.maxParallel) ELSE 1

\* the page of the shared runner in place of the page of the scenario
RunnerPage(runnerPage, scenarioPage) == runnerPage

\* context.page: the page of the TestContext that runScenario built and handed
\* to executeStepWithRetries
ContextPage(runnerPage, scenarioPage) == scenarioPage

Queued(tagged) ==
  [state |-> "queued", tagged |-> tagged, context |-> NoPage, page |-> NoPage,
   variables |-> NoPage, executing |-> {}, results |-> <<>>]

\* a configured maximum is a number from 1 up (pLimit accepts nothing else),
\* or MAX_WORKERS is not configured
PoolOptions ==
  {[parallel |-> p, maxParallel |-> m, entry |-> "runAllFeatures"] :
     p \in BOOLEAN, m \in {Unset} \cup 1..MaxWorkers}
    \cup {[parallel |-> p, maxParallel |-> Unset, entry |-> "runSingleFeature"] :
            p \in BOOLEAN}

PoolInit ==
  /\ Quiet("pool")
  /\ url = LoginUrl
  /\ wait = NoWait
  /\ parsing = NoParsing
  /\ \E options \in PoolOptions, n \in 1..MaxScenarios :
     \E tagged \in [1..n -> BOOLEAN] :
       pool = [phase |-> "feature", options |-> options,
               scenarios |-> [i \in 1..n |-> Queued(tagged[i])],
               created |-> 0, runnerPage |-> NoPage, operations |-> {},
               report |-> <<>>, status |-> "none"]

Pending(i) == pool.scenarios[i].state \in {"called", "open", "closing"}

ActiveCount == Cardinality({i \in DOMAIN pool.scenarios : Pending(i)})

Operation(i, name, target) == [scenario |-> i, name |-> name, target |-> target]

\* the next queued scenario function starts: shouldRunScenario, and the call of runScenario
Dequeue ==
  /\ pc = "pool"
  \* the sequential loop ends with the first call that rejects
  /\ \/ Parallel(pool.options)
     \/ \A j \in DOMAIN pool.scenarios : pool.scenarios[j].state # "rejected"
  /\ ActiveCount < Slots(pool.options)
  /\ \E i \in DOMAIN pool.scenarios :
       /\ pool.scenarios[i].state = "queued"
       /\ \A j \in 1..(i - 1) : pool.scenarios[j].state # "queued"
       /\ pool' = [pool EXCEPT !.scenarios[i].state =
                                 IF pool.scenarios[i].tagged THEN "called" ELSE "skipped"]
  /\ UNCHANGED <<url, wait, parsing>>
  /\ UNCHANGED quietVars

\* createScenarioContext, newPage and the TestContext with its variables, or
\* the throw of one of them
Open ==
  /\ pc = "pool"
  /\ \E i \in DOMAIN pool.scenarios, created \in BOOLEAN :
       /\ pool.scenarios[i].state = "called"
       \* after teardown the browser is closed: no context can be created
       /\ pool.phase = "aborted" => ~created
       /\ pool' = IF created
                  THEN [pool EXCEPT !.scenarios[i].state = "open",
                                    !.scenarios[i].context = pool.created + 1,
                                    !.scenarios[i].page = pool.created + 1,
                                    !.scenarios[i].variables = pool.created + 1,
                                    !.created = @ + 1,
                                    !.operations =
                                       @ \cup {Operation(i, "goto", pool.created + 1)}]
                  ELSE [pool EXCEPT !.scenarios[i].state = "rejected"]
  /\ UNCHANGED <<url, wait, parsing>>
  /\ UNCHANGED quietVars

\* the loop of runScenario calls executeStepWithRetries on its next step
StepStart ==
  /\ pc = "pool"
  /\ \E i \in DOMAIN pool.scenarios :
       /\ pool.scenarios[i].state = "open"
       /\ pool.scenarios[i].executing = {}
       /\ Len(pool.scenarios[i].results) < MaxPoolSteps
       /\ pool' = [pool EXCEPT !.scenarios[i].executing =
                                 {Len(pool.scenarios[i].results) + 1}]
  /\ UNCHANGED <<url, wait, parsing>>
  /\ UNCHANGED quietVars

\* the browser operations of a step: resolve, the action and its wait on
\* context.page; when the attempt fails the capture on context.page and the
\* pause this.page?.waitForTimeout(1000) on the page of the runner, if any
StepOperations(i, failed) ==
  LET page == ContextPage(pool.runnerPage, pool.scenarios[i].page)
  IN {Operation(i, name, page) : name \in {"resolve", "perform", "wait"}}
       \cup (IF failed THEN {Operation(i, "capture", page)} ELSE {})
       \cup (IF failed /\ pool.runnerPage # NoPage
             THEN {Operation(i, "pause", pool.runnerPage)} ELSE {})

\* executeStepWithRetries returns its StepResult, which the loop pushes; a
\* failed result ends the loop and the scenario
StepEnd ==
  /\ pc = "pool"
  /\ \E i \in DOMAIN pool.scenarios, failed \in BOOLEAN :
       /\ pool.scenarios[i].state = "open"
       /\ pool.scenarios[i].executing # {}
       /\ LET results == Append(pool.scenarios[i].results,
                                IF failed THEN "failed" ELSE "passed")
          IN pool' = [pool EXCEPT
                        !.scenarios[i].executing = {},
                        !.scenarios[i].results = results,
                        !.scenarios[i].state =
                           IF failed \/ Len(results) = MaxPoolSteps
                           THEN "closing" ELSE "open",
                        !.operations = @ \cup StepOperations(i, failed)]
  /\ UNCHANGED <<url, wait, parsing>>
  /\ UNCHANGED quietVars

\* the finally block of runScenario closes the context, the call returns
Close ==
  /\ pc = "pool"
  /\ \E i \in DOMAIN pool.scenarios :
       /\ pool.scenarios[i].state = "closing"
       /\ pool' = [pool EXCEPT !.scenarios[i].state = "returned"]
  /\ UNCHANGED <<url, wait, parsing>>
  /\ UNCHANGED quietVars

\* the status of the ScenarioResult a returned runScenario call delivered
ScenarioStatus(scenario) ==
  IF \E k \in 1..Len(scenario.results) : scenario.results[k] = "failed"
  THEN "failed" ELSE "passed"

\* scenarioResults: the results of the calls that returned, in scenario
\* order (the pushes of the sequential loops, the non-null results of Promise.all)
ScenarioResults(scenarios) ==
  SelectSeq([i \in DOMAIN scenarios |->
               IF scenarios[i].state = "returned" THEN ScenarioStatus(scenarios[i])
               ELSE "null"],
            LAMBDA r : r # "null")

\* a status that is never skipped
featureStatusWithoutSkipped(scenarioResults) ==
  IF \E k \in 1..Len(scenarioResults) : scenarioResults[k] = "failed"
  THEN "failed" ELSE "passed"

\* featureStatus of runAllFeatures
featureStatus(scenarioResults) ==
  IF \E k \in 1..Len(scenarioResults) : scenarioResults[k] = "failed" THEN "failed"
  ELSE IF Len(scenarioResults) = 0 THEN "skipped"
  ELSE "passed"

\* featureStatus of runSingleFeature
singleFeatureStatus(scenarioResults) ==
  IF \E k \in 1..Len(scenarioResults) : scenarioResults[k] = "failed" THEN "failed"
  ELSE IF Len(scenarioResults) = 0 THEN "skipped"
  ELSE "passed"

\* every task of the feature has settled without a rejection: the results
\* that are not null make the FeatureResult, teardown, and the report is
\* written and returned
Report ==
  /\ pc = "pool"
  /\ pool.phase = "feature"
  /\ \A i \in DOMAIN pool.scenarios : pool.scenarios[i].state \in {"returned", "skipped"}
  /\ pool' = [pool EXCEPT
                !.phase = "reported",
                !.status = IF pool.options.entry = "runSingleFeature"
                           THEN singleFeatureStatus(ScenarioResults(pool.scenarios))
                           ELSE featureStatus(ScenarioResults(pool.scenarios)),
                !.report = [i \in {j \in DOMAIN pool.scenarios :
                                     pool.scenarios[j].state = "returned"}
                              |-> ScenarioStatus(pool.scenarios[i])]]
  /\ UNCHANGED <<url, wait, parsing>>
  /\ UNCHANGED quietVars

\* a runScenario call rejected: Promise.all, or the await of the sequential
\* loop, throws; the finally block tears the browser down and runAllFeatures
\* rejects without a report
Abort ==
  /\ pc = "pool"
  /\ pool.phase = "feature"
  /\ \E i \in DOMAIN pool.scenarios : pool.scenarios[i].state = "rejected"
  /\ pool' = [pool EXCEPT !.phase = "aborted"]
  /\ UNCHANGED <<url, wait, parsing>>
  /\ UNCHANGED quietVars

PoolNext == Dequeue \/ Open \/ StepStart \/ StepEnd \/ Close \/ Report \/ Abort

SpecPool == PoolInit /\ [][PoolNext]_vars

----------------------------------------------------------------------------
(* Properties of the scheduling of scenarios *)

\* the runScenario calls that have started and have not returned
Running == {i \in DOMAIN pool.scenarios : pool.scenarios[i].state \in {"called", "open", "closing"}}

\* options.maxParallel, or the default of an unconfigured run
ConfiguredMaximum ==
  IF pool.options.maxParallel = Unset THEN DefaultMaxParallel ELSE pool.options.maxParallel

\* C19: in parallel mode at most maxParallel scenarios are running at any
\* moment, and within one scenario at most one step is executing at a time: the
\* step that executes is the one after the results returned so far.
AtMostMaxParallelAndOneStepAtATime ==
  /\ pool.options.parallel => Cardinality(Running) <= ConfiguredMaximum
  /\ \A i \in DOMAIN pool.scenarios :
       /\ Cardinality(pool.scenarios[i].executing) <= 1
       /\ pool.scenarios[i].executing \subseteq {Len(pool.scenarios[i].results) + 1}

\* the limit binds: as many scenarios run as the maximum allows, each with a
\* step executing, while another scenario waits in the queue
LimitReachedWithScenarioQueued ==
  /\ pool.options.parallel
  /\ Cardinality(Running) = ConfiguredMaximum
  /\ ConfiguredMaximum > 1
  /\ \A i \in Running : pool.scenarios[i].executing # {}
  /\ \E i \in DOMAIN pool.scenarios : pool.scenarios[i].state = "queued"

\* the scenarios whose runScenario call built its context, page and variables
Built == {i \in DOMAIN pool.scenarios : pool.scenarios[i].state \in {"open", "closing", "returned"}}

\* C20: every runScenario call has a context, a page and a variables map of its
\* own, and every browser operation of a scenario's steps targets the page of
\* that scenario, never the page of another scenario nor a page held in a field
\* of the shared runner.
OperationsTargetOwnPage ==
  /\ \A i \in Built : \A j \in Built \ {i} :
       /\ pool.scenarios[i].context # pool.scenarios[j].context
       /\ pool.scenarios[i].page # pool.scenarios[j].page
       /\ pool.scenarios[i].variables # pool.scenarios[j].variables
  /\ \A op \in pool.operations :
       /\ op.target = pool.scenarios[op.scenario].page
       /\ op.target # pool.runnerPage
       /\ \A j \in Built \ {op.scenario} : op.target # pool.scenarios[j].page

\* two scenarios are open at the same time, and both have performed the
\* operations of a step, one of them those of a failed step
TwoScenariosOperatedConcurrently ==
  \E i \in DOMAIN pool.scenarios : \E j \in DOMAIN pool.scenarios \ {i} :
    /\ pool.scenarios[i].state = "open"
    /\ pool.scenarios[j].state = "closing"
    /\ \E op \in pool.operations : op.scenario = i /\ op.name = "perform"
    /\ \E op \in pool.operations : op.scenario = j /\ op.name = "capture"

----------------------------------------------------------------------------
(* Properties of the run as a whole *)

\* the scenarios of the feature that the tag filter selected
Selected == {i \in DOMAIN pool.scenarios : pool.scenarios[i].tagged}

\* C21: a failure inside one scenario, a failed step or an exception raised
\* while it is set up or run, never aborts the run: runAllFeatures does not
\* reject, and the report it returns holds one result for each selected
\* scenario, failed for the scenarios with a failed step.
ScenarioFailureNeverAbortsRun ==
  /\ pool.phase # "aborted"
  /\ pool.phase = "reported" =>
       /\ DOMAIN pool.report = Selected
       /\ \A i \in Selected : pool.report[i] = ScenarioStatus(pool.scenarios[i])

----------------------------------------------------------------------------
(* Further properties of the retry loop *)

\* the call returned the failed StepResult: every attempt failed
ReturnedFailed == call.phase = "returned" /\ ~call.succeeded

\* C22: with options.retries = n, for every n >= 0 and whatever RETRIES the
\* environment holds, a step whose every attempt fails is attempted exactly
\* n + 1 times; n = 0 gives a single attempt.
RetriesOptionSetsAttempts ==
  ReturnedFailed => call.attemptsRun = cfg.retries + 1

----------------------------------------------------------------------------
(* The tag filter on its own: shouldRunScenario of the runner and            *)
(* FeatureParser.shouldIncludeScenario                                      *)

\* the tags of the feature files, as parseTags keeps them
Tags == {"@smoke", "@wip", "@slow"}

\* an optional string[] argument: undefined, or the tags it lists
NoTags == [defined |-> FALSE, tags |-> {}]
TagList(tags) == [defined |-> TRUE, tags |-> tags]
TagLists == {NoTags} \cup {TagList(t) : t \in SUBSET Tags}

\* arr && arr.length > 0
Specified(list) == list.defined /\ list.tags # {}

\* the filter with the include list looked at before the exclude list
shouldRunIncludeFirst(scenarioTags, includeTags, excludeTags) ==
  IF Specified(includeTags)
  THEN \E tag \in scenarioTags : tag \in includeTags.tags
  ELSE ~(Specified(excludeTags) /\ \E tag \in scenarioTags : tag \in excludeTags.tags)

shouldRunScenario(scenarioTags, includeTags, excludeTags) ==
  IF Specified(excludeTags) /\ \E tag \in scenarioTags : tag \in excludeTags.tags
  THEN FALSE
  ELSE IF Specified(includeTags)
  THEN \E tag \in scenarioTags : tag \in includeTags.tags
  ELSE TRUE

shouldIncludeScenario(scenarioTags, includeTags, excludeTags) ==
  IF Specified(excludeTags) /\ \E tag \in scenarioTags : tag \in excludeTags.tags
  THEN FALSE
  ELSE IF Specified(includeTags)
  THEN \E tag \in scenarioTags : tag \in includeTags.tags
  ELSE TRUE

FilterInit ==
  /\ Calm("filtering")
  /\ url = LoginUrl
  /\ wait = NoWait
  /\ parsing = NoParsing
  /\ pool = NoPool
  /\ \E scenarioTags \in SUBSET Tags, includeTags \in TagLists, excludeTags \in TagLists :
       study = [phase |-> "called", scenarioTags |-> scenarioTags,
                includeTags |-> includeTags, excludeTags |-> excludeTags,
                run |-> FALSE, include |-> FALSE]

\* the runner asks shouldRunScenario, filterScenariosByTags asks
\* shouldIncludeScenario
Filter ==
  /\ pc = "filtering"
  /\ study.phase = "called"
  /\ study' = [study EXCEPT
                 !.phase = "returned",
                 !.run = shouldRunScenario(study.scenarioTags, study.includeTags,
                                           study.excludeTags),
                 !.include = shouldIncludeScenario(study.scenarioTags, study.includeTags,
                                                   study.excludeTags)]
  /\ UNCHANGED <<url, wait, parsing, pool>>
  /\ UNCHANGED calmVars

FilterNext == Filter

SpecFilter == FilterInit /\ [][FilterNext]_vars

\* C23: a scenario is run exactly when it carries none of the exclude tags and
\* the include list is empty or the scenario carries one of the include tags;
\* a scenario that carries an include tag and an exclude tag is not run.
RunExactlyWhenNotExcludedAndIncluded ==
  (pc = "filtering" /\ study.phase = "returned") =>
    LET selected ==
          /\ study.scenarioTags \cap study.excludeTags.tags = {}
          /\ \/ study.includeTags.tags = {}
             \/ study.scenarioTags \cap study.includeTags.tags # {}
    IN study.run = selected /\ study.include = selected

\* a scenario with an include tag and an exclude tag was filtered out
IncludedAndExcludedIsNotRun ==
  /\ pc = "filtering"
  /\ study.phase = "returned"
  /\ study.scenarioTags \cap study.includeTags.tags # {}
  /\ study.scenarioTags \cap study.excludeTags.tags # {}
  /\ ~study.run

----------------------------------------------------------------------------
(* main of run-tests.ts on its own: the run, and the status the process     *)
(* exits with                                                               *)

\* how many scenarios a run executes at most
MaxExecuted == 3

\* what the run meets: the statuses of the ScenarioResults of the scenarios it
\* executes, or a rejection of runAllFeatures / runSingleFeature
Runs ==
  {[command |-> c, scenarios |-> sc, rejects |-> r] :
     c \in {"all", "single"},
     sc \in SeqsUpTo({"passed", "failed"}, MaxExecuted),
     r \in BOOLEAN}

\* summary.failed: allScenarios.filter((s) => s.status === "failed").length
FailedCount(scenarios) == Cardinality({i \in 1..Len(scenarios) : scenarios[i] = "failed"})

MainInit ==
  /\ Calm("main")
  /\ url = LoginUrl
  /\ wait = NoWait
  /\ parsing = NoParsing
  /\ pool = NoPool
  /\ \E run \in Runs :
       study = [phase |-> "running", run |-> run, failed |-> 0, exit |-> Unset]

\* await runSingleFeature(...) or await runAllFeatures(...), and the summary
\* that is logged
RunTests ==
  /\ pc = "main"
  /\ study.phase = "running"
  /\ study' = IF study.run.rejects
              THEN [study EXCEPT !.phase = "caught"]
              ELSE [study EXCEPT !.phase = "logged",
                                 !.failed = FailedCount(study.run.scenarios)]
  /\ UNCHANGED <<url, wait, parsing, pool>>
  /\ UNCHANGED calmVars

\* the process ends: process.exit(1) of the catch block, process.exit of the
\* run of all features, or the return of main after a single feature, which
\* leaves the exit status at 0
Exit ==
  /\ pc = "main"
  /\ study.phase \in {"caught", "logged"}
  /\ study' = [study EXCEPT
                 !.phase = "exited",
                 !.exit = IF study.phase = "caught" THEN 1
                          ELSE IF study.run.command = "all"
                          THEN (IF study.failed > 0 THEN 1 ELSE 0)
                          ELSE 0]
  /\ UNCHANGED <<url, wait, parsing, pool>>
  /\ UNCHANGED calmVars

MainNext == RunTests \/ Exit

SpecMain == MainInit /\ [][MainNext]_vars

\* C24: in the run of all features and in the run of a single feature, the
\* process exits with a non-zero status when an executed scenario failed and
\* with status 0 when none failed.
ExitStatusTellsFailure ==
  (pc = "main" /\ study.phase = "exited" /\ ~study.run.rejects) =>
    (study.exit # 0 <=>
       \E i \in 1..Len(study.run.scenarios) : study.run.scenarios[i] = "failed")

----------------------------------------------------------------------------
(* The feature file parser: src/src/parser/feature-parser.ts                 *)
(* A file is the sequence of its trimmed lines, each line the kind of text   *)
(* it holds; a parsed step is named by the number of its line.               *)

(* The kinds: "Feature" (Feature: ...), "Background" (Background:),           *)
(* "BackgroundNamed" (Background: <name>), "Scenario", "Tag" (@...), "Step"  *)
(* (a step keyword and a space), "Text", "Blank", "Comment" (# ...).         *)

\* the first loop of parseFeatureContent: the line after the Feature line
RECURSIVE AfterFeatureLine(_, _)
AfterFeatureLine(lines, c) ==
  IF c > Len(lines) THEN c
  ELSE IF lines[c] = "Feature" THEN c + 1
  ELSE AfterFeatureLine(lines, c + 1)

\* the break test of the description loop: "", "Background: " (the lines are
\* trimmed, so only a Background line with a name after the colon has the
\* space), "@", "Scenario:"
DescriptionBreaks(kind) == kind \in {"Blank", "BackgroundNamed", "Tag", "Scenario"}

\* the second loop: the first line that is not part of the description
RECURSIVE DescriptionEnd(_, _)
DescriptionEnd(lines, c) ==
  IF c > Len(lines) \/ DescriptionBreaks(lines[c]) THEN c
  ELSE DescriptionEnd(lines, c + 1)

\* the step loop of parseBackground and of parseScenario
RECURSIVE StepLoop(_, _, _)
StepLoop(lines, c, steps) ==
  IF c > Len(lines) \/ lines[c] \in {"Tag", "Scenario"}
  THEN [steps |-> steps, nextLine |-> c]
  ELSE StepLoop(lines, c + 1, IF lines[c] = "Step" THEN Append(steps, c) ELSE steps)

parseBackground(lines, startLine) == StepLoop(lines, startLine + 1, <<>>)

RECURSIVE TagsEnd(_, _)
TagsEnd(lines, c) ==
  IF c <= Len(lines) /\ lines[c] = "Tag" THEN TagsEnd(lines, c + 1) ELSE c

\* parseScenario: the tag lines, the Scenario line (or the throw when another
\* line or the end of the file follows the tags), the steps
ScenarioFrom(lines, c) ==
  IF c > Len(lines) \/ lines[c] # "Scenario"
  THEN [ok |-> FALSE, line |-> c, steps |-> <<>>, nextLine |-> c]
  ELSE [ok |-> TRUE, line |-> c] @@ StepLoop(lines, c + 1, <<>>)

parseScenario(lines, startLine) == ScenarioFrom(lines, TagsEnd(lines, startLine))

\* the third loop: backgrounds and scenarios
RECURSIVE ParseBody(_, _, _)
ParseBody(lines, c, acc) ==
  IF c > Len(lines) \/ ~acc.ok THEN acc
  ELSE IF lines[c] \in {"Background", "BackgroundNamed"}
  THEN \* feature.background = background
       (LET b == parseBackground(lines, c)
        IN ParseBody(lines, b.nextLine,
                     [acc EXCEPT !.background = [defined |-> TRUE, steps |-> b.steps]]))
  ELSE IF lines[c] \in {"Tag", "Scenario"}
  THEN (LET sc == parseScenario(lines, c)
        IN ParseBody(lines, sc.nextLine,
                     [acc EXCEPT !.ok = sc.ok,
                                 !.scenarios = IF sc.ok THEN Append(@, sc.steps) ELSE @]))
  ELSE ParseBody(lines, c + 1, acc)

\* the lines from to - 1, by their numbers
LineNumbers(from, to) == [i \in 1..(to - from) |-> from + i - 1]

\* the description and the rest of the file from the line the description ends at
FeatureFrom(lines, c, end) ==
  [description |-> LineNumbers(c, end)]
    @@ ParseBody(lines, end,
                 [ok |-> TRUE, background |-> [defined |-> FALSE, steps |-> <<>>],
                  scenarios |-> <<>>])

parseFeatureContent(lines) ==
  FeatureFrom(lines, AfterFeatureLine(lines, 1),
              DescriptionEnd(lines, AfterFeatureLine(lines, 1)))

(* The specification of the feature parser: a feature file with a Background *)
(* section before its first scenario is parsed.                              *)

MaxBackgroundLines == 3

\* the lines between the Feature line and the Background line
Preambles == {<<>>, <<"Blank">>, <<"Text">>, <<"Text", "Blank">>}

\* the lines of a Background section: steps, blank lines and comments
BackgroundBodies ==
  UNION {[1..n -> {"Step", "Blank", "Comment"}] : n \in 0..MaxBackgroundLines}

\* the scenarios after the section
ScenarioTexts ==
  {<<>>, <<"Scenario", "Step">>, <<"Tag", "Scenario", "Step">>,
   <<"Blank", "Scenario", "Step", "Step">>}

FeatureText(preamble, backgroundLine, body, scenarios) ==
  [lines |-> <<"Feature">> \o preamble \o <<backgroundLine>> \o body \o scenarios,
   backgroundLine |-> Len(preamble) + 2,
   sectionEnd |-> Len(preamble) + 2 + Len(body)]

FeatureInit ==
  /\ Calm("featureParsing")
  /\ url = LoginUrl
  /\ wait = NoWait
  /\ parsing = NoParsing
  /\ pool = NoPool
  /\ \E preamble \in Preambles, backgroundLine \in {"Background", "BackgroundNamed"},
        body \in BackgroundBodies, scenarios \in ScenarioTexts :
       study = [phase |-> "file",
                text |-> FeatureText(preamble, backgroundLine, body, scenarios),
                feature |-> Unset]

ParseFeature ==
  /\ study.phase = "file"
  /\ study' = [study EXCEPT !.phase = "parsed",
                            !.feature = parseFeatureContent(study.text.lines)]
  /\ UNCHANGED <<url, wait, parsing, pool>>
  /\ UNCHANGED calmVars

FeatureNext == ParseFeature

SpecFeature == FeatureInit /\ [][FeatureNext]_vars

\* the step lines of the Background section of the parsed text, in file order
SectionSteps ==
  SelectSeq(LineNumbers(study.text.backgroundLine + 1, study.text.sectionEnd + 1),
            LAMBDA n : study.text.lines[n] = "Step")

InSeq(x, seq) == \E i \in 1..Len(seq) : seq[i] = x

\* C25: for a feature text with a Background section before its first
\* scenario, the parsed feature's background holds exactly the section's step
\* lines in file order, and none of them is in the description or in a
\* scenario's steps, with or without a blank line after the Feature line.
BackgroundHoldsItsSection ==
  study.phase = "parsed" =>
    /\ study.feature.ok
    /\ study.feature.background.defined
    /\ study.feature.background.steps = SectionSteps
    /\ \A i \in 1..Len(SectionSteps) :
         /\ ~InSeq(SectionSteps[i], study.feature.description)
         /\ \A j \in 1..Len(study.feature.scenarios) :
              ~InSeq(SectionSteps[i], study.feature.scenarios[j])

\* the same, for the texts where a blank line or a named Background line ends
\* the description
BackgroundAfterDescriptionEnd ==
  (/\ study.phase = "parsed"
   /\ \/ study.text.lines[study.text.backgroundLine] = "BackgroundNamed"
      \/ study.text.lines[study.text.backgroundLine - 1] = "Blank") =>
    /\ study.feature.background.defined
    /\ study.feature.background.steps = SectionSteps
    /\ study.feature.description \in {<<>>, <<2>>}

----------------------------------------------------------------------------
(* Properties of the diagnostics and the error of a step's StepResult *)

\* the captures of the call that were made after the retry loop
FinalCaptures ==
  {i \in 1..Len(call.captures) : call.captures[i].kind = "FINAL_FAILURE"}

\* C26: when every attempt of a step failed and screenshots are enabled, the
\* final-failure capture has been made exactly once when the failed
\* StepResult is returned, after the last attempt, for every retry limit
\* R >= 0, R = 0 included.
FinalCaptureOnceForEveryLimit ==
  (ReturnedFailed /\ EnableScreenshots(cfg))
    => /\ Cardinality(FinalCaptures) = 1
       /\ \A i \in FinalCaptures : call.captures[i].attempt = call.attemptsRun

\* the same for a retry limit of at least one
FinalCaptureOnceWithRetries ==
  (ReturnedFailed /\ EnableScreenshots(cfg) /\ MaxRetriesOf(cfg) >= 1)
    => /\ Cardinality(FinalCaptures) = 1
       /\ \A i \in FinalCaptures : call.captures[i].attempt = call.attemptsRun
       /\ call.attemptsRun = MaxRetriesOf(cfg) + 1

\* the StepResult the ended call pushed
ReturnedResult == stepResults[Len(stepResults)]

\* C27: the failed StepResult returned after every attempt of a step failed
\* carries the name and the message of the error the last attempt threw, also
\* when an earlier attempt threw another error.
FailedResultCarriesLastError ==
  ReturnedFailed
    => /\ ReturnedResult.status = "failed"
       /\ ReturnedResult.error.name = call.errors[Len(call.errors)].name
       /\ ReturnedResult.error.message = call.errors[Len(call.errors)].message

\* a failed StepResult was returned after two attempts threw different errors
AttemptsFailedDifferently ==
  /\ ReturnedFailed
  /\ \E i \in 1..Len(call.errors) : call.errors[i] # call.errors[Len(call.errors)]

\* C28: every failed attempt that is followed by another attempt of the step
\* is followed by a backoff wait of one second before the next attempt
\* starts, and no backoff wait follows the last attempt.
BackoffBetweenAttempts ==
  /\ \A i \in 1..Len(call.waits) : call.waits[i] = BackoffMs
  /\ call.phase = "loop" => Len(call.waits) = call.attemptsRun
  /\ (call.phase = "final" \/ ReturnedFailed) => Len(call.waits) = call.attemptsRun - 1

\* the waits are reached when the claim says, whatever their length
BackoffOnlyBetweenAttempts ==
  /\ call.phase = "loop" => Len(call.waits) = call.attemptsRun
  /\ (call.phase = "final" \/ ReturnedFailed) => Len(call.waits) = call.attemptsRun - 1

\* the call returned the passed StepResult of an attempt that succeeded
ReturnedPassed == call.phase = "returned" /\ call.succeeded

\* no capture of the call was made at or after the attempt that succeeded
SuccessCapturesNothing ==
  call.succeeded
    => \A i \in 1..Len(call.captures) : call.captures[i].attempt < call.attemptsRun - 1

\* C29: an attempt that succeeds captures no diagnostics, and the passed
\* StepResult of a step carries no screenshot embedding, also when earlier
\* attempts of the step failed.
PassedResultHasNoAttachment ==
  /\ SuccessCapturesNothing
  /\ \A i \in 1..Len(stepResults) :
       stepResults[i].status = "passed" => stepResults[i].embeddings = 0

\* C29, amended: an attempt that succeeds captures no diagnostics; the passed
\* StepResult carries the screenshot embeddings of the step's earlier failed
\* attempts, at most the one of the first failure, and none when the first
\* attempt succeeded or screenshots are disabled.
PassedResultCarriesEarlierFailures ==
  /\ SuccessCapturesNothing
  /\ ReturnedPassed
       => /\ ReturnedResult.status = "passed"
          /\ ReturnedResult.embeddings = call.embeddings
          /\ ReturnedResult.embeddings <= 1
          /\ (call.attemptsRun = 1 \/ ~EnableScreenshots(cfg))
               => ReturnedResult.embeddings = 0

\* a step passed at a retry and its result carries the first-failure screenshot
PassedAfterFailureWithScreenshot ==
  /\ ReturnedPassed
  /\ call.attemptsRun > 1
  /\ ReturnedResult.embeddings = 1

----------------------------------------------------------------------------
(* Properties of the order of the StepResults *)

\* the background steps in declared order, then the scenario steps in
\* declared order
Declared ==
  (IF feature.hasBackground THEN feature.background ELSE <<>>) \o feature.steps

IsPrefixOfDeclared(results) ==
  /\ Len(results) <= Len(Declared)
  /\ \A i \in 1..Len(results) : results[i].step = Declared[i]

\* C30: the StepResults collected by runScenario, and those of the
\* ScenarioResult it returns, are the results of a prefix of the background
\* steps followed by the scenario steps, each in declared order: no step is
\* recorded twice, out of order or before an earlier step.
StepResultsFollowDeclaredOrder ==
  /\ IsPrefixOfDeclared(stepResults)
  /\ pc = "done" => IsPrefixOfDeclared(result.steps)

\* a returned ScenarioResult holds the results of two different steps, a
\* background step and a scenario step after it
BackgroundThenScenarioRecorded ==
  /\ pc = "done"
  /\ feature.hasBackground
  /\ Len(feature.background) >= 1
  /\ Len(result.steps) > Len(feature.background)
  /\ result.steps[1].step # result.steps[Len(feature.background) + 1].step

----------------------------------------------------------------------------
(* Properties of the end of a step and of a scenario *)

\* C31: executeStepWithRetries never throws: the call on a step ends with one
\* StepResult, passed or failed, also when a diagnostic capture fails, so
\* the returned ScenarioResult holds a StepResult for every step started.
EveryStartedStepHasAResult ==
  /\ call.phase # "threw"
  /\ CallEnded => /\ Len(stepResults) = Len(executed)
                  /\ ReturnedResult.step = call.step
                  /\ ReturnedResult.status \in {"passed", "failed"}
  /\ pc = "done" => Len(result.steps) = Len(executed)

\* the same for the calls whose captures do not throw
StartedStepHasAResultUnlessThrown ==
  (call.phase # "threw")
    => /\ CallEnded => /\ Len(stepResults) = Len(executed)
                       /\ ReturnedResult.step = call.step
                       /\ ReturnedResult.status \in {"passed", "failed"}
       /\ pc = "done" => Len(result.steps) = Len(executed)

\* runScenario is between its first and its last statement
ScenarioRunning == pc \in {"background", "steps", "end"}

\* C32: a runScenario call that created a browsing context has closed it
\* when the call ends, whatever the outcome, the context is closed by the
\* step that ends the call and by no other, and no step of the scenario
\* executes on a closed context.
ContextClosedWhateverTheOutcome ==
  /\ pc \in {"done", "rejected"} => ~contextOpen
  /\ ScenarioRunning => contextOpen
  /\ call.phase \in {"loop", "final"} => contextOpen

\* the same for the calls that reached the try block
ContextClosedAfterTryBlock ==
  /\ pc = "done" => ~contextOpen
  /\ ScenarioRunning => contextOpen
  /\ call.phase \in {"loop", "final"} => contextOpen

----------------------------------------------------------------------------
(* The URL assertion on its own: waitForUrlStable on a page that stays at    *)
(* one URL, for every expected text                                          *)

MaxTextLen == 2

\* the characters the URLs and the expected texts are written with
UrlTokens == {"inventory", "Inventory", ".", "+", "?", "("}

UrlTexts == UNION {[1..n -> UrlTokens] : n \in 0..MaxTextLen}

UrlInit ==
  /\ Calm("asserting")
  /\ url = LoginUrl
  /\ wait = NoWait
  /\ parsing = NoParsing
  /\ pool = NoPool
  /\ \E current \in UrlTexts, expected \in UrlTexts \ {<<>>}, loads \in BOOLEAN :
       study = [phase |-> "called", url |-> current, expected |-> expected,
                loads |-> loads, error |-> NoError]

AssertUrl ==
  /\ study.phase = "called"
  /\ study' = [study EXCEPT
                 !.phase = "ended",
                 !.error = waitForUrlStable(study.url, study.expected,
                                            Browser(study.loads, FALSE))]
  /\ UNCHANGED <<url, wait, parsing, pool>>
  /\ UNCHANGED calmVars

UrlNext == AssertUrl

SpecUrl == UrlInit /\ [][UrlNext]_vars

\* the URL contains the expected text as a literal, whatever the case
ContainsLiteral == Includes(ToLowerCase(study.url), ToLowerCase(study.expected))

\* the error names the expected text and the URL
ReportsExpectedAndActual ==
  /\ Includes(study.error.message, study.expected)
  /\ Includes(study.error.message, study.url)

\* C33: on a page that loads, assertUrl succeeds exactly when the URL
\* contains the expected text as a case-insensitive literal substring, for
\* every expected text, '.', '+', '?' and '(' included; when it fails, its
\* error reports the expected text and the URL.
AssertUrlIsLiteralContainment ==
  (study.phase = "ended" /\ study.loads)
    => /\ study.error = NoError <=> ContainsLiteral
       /\ study.error # NoError => ReportsExpectedAndActual

\* the same for the expected texts without an operator character
AssertUrlOnPlainText ==
  ( /\ study.phase = "ended"
    /\ study.loads
    /\ \A i \in 1..Len(study.expected) : study.expected[i] \notin {".", "+", "?", "("} )
    => /\ study.error = NoError <=> ContainsLiteral
       /\ study.error # NoError => ReportsExpectedAndActual

\* a failed assertion always reports both, and it never succeeds on a URL
\* that does not contain the text
AssertUrlNeverPassesWithoutText ==
  study.phase = "ended"
    => /\ study.error = NoError => ContainsLiteral
       /\ study.error # NoError => ReportsExpectedAndActual

----------------------------------------------------------------------------
(* Properties of the resolver's cache *)

\* the recorded call of the present resolver that wrote the cache entry, and
\* saw a visible element through the selector of the entry
WrittenOnSight(entry, a) ==
  /\ a.instance = instance
  /\ StoredSelector(a)
  /\ CacheKey(a.url, a.name, a.at) = entry.key
  /\ a.locator = PageLocator(entry.sel)
  /\ FoundVisible(DomOf(a), PageLocator(entry.sel))

\* C34: every selector held in the resolver's cache was observed, when it was
\* written, to locate a visible element through that very selector string; no
\* entry holds a selector that matched only hidden elements or a placeholder
\* string that is not the expression the element was found with.
CachedSelectorsWereSeenVisible ==
  \A k \in 1..Len(cache) :
    \E i \in 1..Len(resolutions) : WrittenOnSight(cache[k], resolutions[i])

\* the same for the entries whose selector came from a string strategy
CachedExpressionsWereSeenVisible ==
  \A k \in 1..Len(cache) :
    cache[k].sel.form \notin {"placeholder", "roleString"}
      => \E i \in 1..Len(resolutions) : WrittenOnSight(cache[k], resolutions[i])

\* the resolve call recorded last, made by the present resolver
LastResolution == resolutions[Len(resolutions)]

\* the cache holds, under the key of the call, the selector the call returned
\* a locator for
StoredUnderItsKey(a) ==
  /\ CacheHas(cache, CacheKey(a.url, a.name, a.at))
  /\ PageLocator(CacheGet(cache, CacheKey(a.url, a.name, a.at))) = a.locator

\* C35: when resolve succeeds through a semantic strategy or through the
\* structural scan, not through a cache hit, the winning selector is in the
\* cache under the key of the call when resolve returns, in place of any
\* earlier entry of that key.
SuccessIsStored ==
  ( /\ Len(resolutions) > 0
    /\ LastResolution.instance = instance
    /\ LastResolution.ok
    /\ LastResolution.tier # "cache" )
    => StoredUnderItsKey(LastResolution)

\* the same for the tiers that answer with a selector string
SelectorTiersAreStored ==
  ( /\ Len(resolutions) > 0
    /\ LastResolution.instance = instance
    /\ StoredSelector(LastResolution) )
    => StoredUnderItsKey(LastResolution)

----------------------------------------------------------------------------
(* The structural scan on its own: analyzeElement, generateSelectors,        *)
(* findBestSelector and resolve on small pages of buttons                    *)

MaxPageElements == 2

\* a button of the page, in the main frame or in a child frame
ScanButton(text, id, testid, visible, frame) ==
  Element("button", "div", text, "button", text, <<>>,
          [NoAttrs EXCEPT !["id"] = id, !["data-testid"] = testid], visible, frame)

ScanElements ==
  {ScanButton(text, id, testid, visible, "main") :
     text \in {<<>>, <<"Login">>}, id \in {<<>>, <<"login">>},
     testid \in {<<>>, <<"login-btn">>}, visible \in BOOLEAN}
    \cup {ScanButton(<<"Login">>, <<"login">>, <<"login-btn">>, TRUE, "child")}

ScanPages == UNION {[1..n -> ScanElements] : n \in 1..MaxPageElements}

ScanInit ==
  /\ Calm("scanning")
  /\ url = LoginUrl
  /\ wait = NoWait
  /\ parsing = NoParsing
  /\ pool = NoPool
  /\ \E dom \in ScanPages, name \in {<<"Login">>, <<"cart">>} :
       study = [phase |-> "page", dom |-> dom, name |-> name, out |-> <<>>]

\* the study ends with what the method under study answered
Answer(phase, out) ==
  /\ study.phase = "page"
  /\ study' = [study EXCEPT !.phase = phase, !.out = out]
  /\ UNCHANGED <<url, wait, parsing, pool>>
  /\ UNCHANGED calmVars

\* domAnalyzer.analyzeElement(page, elementName)
Analyze == Answer("analyzed", analyzeElement(study.dom, study.name))

\* generateSelectors(el), for the first element of the page
Generate == Answer("generated", generateSelectors(study.dom[1]))

\* the ordered list of the candidates synthesized for the elements of the page
Synthesized(dom) == Dedupe(Flatten([i \in 1..Len(dom) |-> generateSelectors(dom[i])]))

\* domAnalyzer.findBestSelector(page, suggestions)
FindBest ==
  Answer("chosen", <<findBestSelector(study.dom, Synthesized(study.dom))>>)

\* elementResolver.resolve(page, elementName, "button") by a new resolver
ResolveButton ==
  Answer("resolved", <<resolve(study.dom, LoginUrl, EmptyCache, 0, study.name, "button")>>)

ScanNext == Analyze \/ Generate \/ FindBest \/ ResolveButton

SpecScan == ScanInit /\ [][ScanNext]_vars

\* one of the two texts contains the other, whatever the case
EitherContains(attribute, name) ==
  /\ attribute # <<>>
  /\ \/ Includes(ToLowerCase(attribute), ToLowerCase(name))
     \/ Includes(ToLowerCase(name), ToLowerCase(attribute))

\* a candidate interactive element of the main document whose visible text,
\* id, aria-label, placeholder or test-id matches the descriptor name
NamedCandidate(el, name) ==
  /\ \E q \in 1..Len(InteractiveQueries) : QueryMatches(el, InteractiveQueries[q])
  /\ \/ EitherContains(el.text, name)
     \/ \E a \in {"id", "aria-label", "placeholder", "data-testid"} :
          EitherContains(el.attrs[a], name)

InList(x, list) == \E i \in 1..Len(list) : list[i] = x

\* C36: for a page that holds a candidate interactive element whose visible
\* text, id, aria-label, placeholder or test-id contains the descriptor name
\* (or is contained in it), analyzeElement returns a non-empty list that
\* includes the selector candidates synthesized for that element.
ScanListsCandidatesOfMatches ==
  study.phase = "analyzed"
    => \A k \in 1..Len(study.dom) :
         NamedCandidate(study.dom[k], study.name)
           => /\ study.out # <<>>
              /\ \A c \in 1..Len(generateSelectors(study.dom[k])) :
                   InList(generateSelectors(study.dom[k])[c], study.out)

\* what the scan answers on every page
ScanAnswersNothing == study.phase = "analyzed" => study.out = <<>>

\* the place of a candidate in a list, 0 when it is not in it
Position(x, list) ==
  IF InList(x, list) THEN CHOOSE i \in 1..Len(list) : list[i] = x /\ \A j \in 1..(i - 1) : list[j] # x
  ELSE 0

ScannedElement == study.dom[1]
HasIdTestIdAndText ==
  /\ study.phase = "generated"
  /\ ScannedElement.attrs["id"] # <<>>
  /\ ScannedElement.attrs["data-testid"] # <<>>
  /\ ScannedElement.text # <<>>

IdCandidate == IdSel(ScannedElement.attrs["id"])
TestIdCandidate == Css("*", <<AttrEq("data-testid", ScannedElement.attrs["data-testid"])>>)
TextCandidate == HasText(ScannedElement.tag, ScannedElement.text)

Candidates == Synthesized(study.dom)
Probe(i) == ProbeResult(study.dom, Candidates[i])
Chosen == study.out[1]

\* candidate d is preferred to candidate c: "visible > unique > exists"
Preferred(d, c) ==
  \/ d.isVisible /\ ~c.isVisible
  \/ d.isVisible = c.isVisible /\ d.count < c.count

VisibleOnlyInChildFrame ==
  /\ \E k \in 1..Len(study.dom) :
       /\ study.dom[k].frame = "child"
       /\ study.dom[k].visible
       /\ study.dom[k].text = study.name
  /\ \A k \in 1..Len(study.dom) : study.dom[k].frame = "main" => ~study.dom[k].visible

\* C39: every tier of the cascade searches the main frame and every child
\* frame: an element that is visible only in a child frame is found by
\* resolve.
ChildFrameElementIsFound ==
  study.phase = "resolved" /\ VisibleOnlyInChildFrame => study.out[1].ok

\* what resolve does on a page whose elements are all in a child frame
ChildFramesAreNotSearched ==
  /\ study.phase = "resolved"
  /\ \A k \in 1..Len(study.dom) : study.dom[k].frame = "child"
  => /\ ~study.out[1].ok
     /\ study.out[1].err = NotLocated(study.name, <<>>)

----------------------------------------------------------------------------
(* The status of a FeatureResult *)

\* the scenarios of the feature that were run, and those whose result failed
ScenariosRun == {i \in DOMAIN pool.scenarios : pool.scenarios[i].state # "skipped"}
ScenariosFailed == {i \in ScenariosRun : ScenarioStatus(pool.scenarios[i]) = "failed"}

\* C40: the status of a FeatureResult is failed exactly when at least one
\* scenario result failed, skipped exactly when no scenario was run, and passed
\* otherwise, in runAllFeatures (sequential and parallel) and runSingleFeature.
FeatureStatusFollowsScenarios ==
  pool.phase = "reported"
    => /\ pool.status = "failed" <=> ScenariosFailed # {}
       /\ pool.status = "skipped" <=> ScenariosRun = {}
       /\ pool.status = "passed" <=> ScenariosRun # {} /\ ScenariosFailed = {}

\* a feature reported failed although one of its scenarios passed
FailedFeatureWithPassedScenario ==
  /\ pool.phase = "reported"
  /\ pool.status = "failed"
  /\ \E i \in ScenariosRun : ScenarioStatus(pool.scenarios[i]) = "passed"
  /\ \E i \in DOMAIN pool.scenarios : pool.scenarios[i].state = "skipped"

====
